---- MODULE Spec2Model ----
(***************************************************************************)
(* find_a_job: the posting store of Bot (src/src/bot.rs), the scrape of a  *)
(* JobSource (src/src/job_source.rs) and the Job record with its title     *)
(* classification (src/src/job.rs).                                        *)
(*                                                                         *)
(* Time is counted in ticks, TicksPerDay ticks to a day; chrono's          *)
(* Duration::num_days is the truncating division by TicksPerDay.  A        *)
(* String is a sequence of one-character strings.  Option<T> is a          *)
(* sequence of length at most one: None is <<>>, Some(x) is <<x>>.         *)
(***************************************************************************)
EXTENDS Integers, Sequences, FiniteSets, TLC

\* ------------------------------------------------------------------ bounds
\* The clock stops at MaxTime ticks.
MaxTime == 6
\* Ticks in one day.
TicksPerDay == 2
\* A scrape reads at most MaxPages pages.
MaxPages == 2
\* The clock stops at MaxTripTime ticks where the trips of the ids are followed.
MaxTripTime == 3
\* The clock stops at MaxRunTime ticks where the binaries run.
MaxRunTime == 2
\* The clock stops at MaxRankTime ticks where the store is listed.
MaxRankTime == 17
\* normalized is applied at most MaxNormalize times in a row.
MaxNormalize == 2
\* The sources show postings up to MaxSeenTime ticks, and none after.
MaxSeenTime == 1
\* The clock stops at MaxListTime ticks where the store is listed between
\* the passes.
MaxListTime == 1

\* ------------------------------------------------------- program constants
\* bot.rs:211, "missing for over 3 days"
GraceDays == 3

\* ------------------------------------------------------------------ Option
None == <<>>
Some(x) == <<x>>
is_none(o) == o = <<>>
is_some(o) == o # <<>>
unwrap(o) == o[1]

\* --------------------------------------------------------------- Durations
\* chrono::Duration::num_days: whole days, truncated toward zero.
num_days(d) == IF d >= 0 THEN d \div TicksPerDay ELSE -((-d) \div TicksPerDay)

\* -------------------------------------------------------------- Normalizer
UpperChars == <<"A","B","C","D","E","F","G","H","I","J","K","L","M",
                "N","O","P","Q","R","S","T","U","V","W","X","Y","Z">>
LowerChars == <<"a","b","c","d","e","f","g","h","i","j","k","l","m",
                "n","o","p","q","r","s","t","u","v","w","x","y","z">>
Digits == {"0","1","2","3","4","5","6","7","8","9"}
Whitespace == {" "}

Range(s) == {s[i] : i \in DOMAIN s}

\* char::to_lowercase on the characters of the model's alphabet.
to_lowercase_char(c) ==
    IF \E i \in DOMAIN UpperChars : UpperChars[i] = c
    THEN LowerChars[CHOOSE i \in DOMAIN UpperChars : UpperChars[i] = c]
    ELSE c

\* char::is_alphanumeric
is_alphanumeric(c) == c \in Range(UpperChars) \cup Range(LowerChars) \cup Digits

\* str::split_whitespace: the maximal runs of non-whitespace characters.
RECURSIVE split_whitespace(_)
split_whitespace(s) ==
    IF s = <<>> THEN <<>>
    ELSE IF s[1] \in Whitespace THEN split_whitespace(Tail(s))
    ELSE LET n == CHOOSE k \in 1..Len(s) :
                      /\ \A i \in 1..k : s[i] \notin Whitespace
                      /\ (k = Len(s) \/ s[k + 1] \in Whitespace)
         IN  <<SubSeq(s, 1, n)>> \o split_whitespace(SubSeq(s, n + 1, Len(s)))

\* [&str]::join(" ")
RECURSIVE join(_)
join(ws) ==
    IF ws = <<>> THEN <<>>
    ELSE IF Len(ws) = 1 THEN ws[1]
    ELSE ws[1] \o <<" ">> \o join(Tail(ws))

\* normalized with a fault: the split and join come before the replace.
normalized_split_first(s) ==
    LET lower  == [i \in DOMAIN s |-> to_lowercase_char(s[i])]
        joined == join(split_whitespace(lower))
    IN  [i \in DOMAIN joined |->
            IF is_alphanumeric(joined[i]) THEN joined[i] ELSE " "]

\* job.rs normalized: lower-case, non-alphanumerics to spaces, split, join.
normalized(s) ==
    LET lower    == [i \in DOMAIN s |-> to_lowercase_char(s[i])]
        replaced == [i \in DOMAIN s |->
                        IF is_alphanumeric(lower[i]) THEN lower[i] ELSE " "]
    IN  join(split_whitespace(replaced))

\* ------------------------------------------------------------------- Regex
\* \w of the regex crate, on the model's alphabet.
is_word_char(c) == is_alphanumeric(c) \/ c = "_"

\* \b at position p of s (between s[p-1] and s[p]).
word_boundary(s, p) ==
    LET before == p > 1 /\ is_word_char(s[p - 1])
        after  == p <= Len(s) /\ is_word_char(s[p])
    IN  before # after

\* Regex::is_match for a pattern \b(a1|a2|...)\b whose alternatives, with
\* the optional parts expanded, are the literal strings of alts.
is_match(alts, s) ==
    \E a \in alts : \E i \in 1..(Len(s) - Len(a) + 1) :
        /\ SubSeq(s, i, i + Len(a) - 1) = a
        /\ word_boundary(s, i)
        /\ word_boundary(s, i + Len(a))

\* \b(intern(ship)?|co ?op|(under)?grad(uate)?|thesis)\b
INTERN_RE ==
    { <<"c","o"," ","o","p">>,
      <<"c","o","o","p">>,
      <<"g","r","a","d">>,
      <<"g","r","a","d","u","a","t","e">>,
      <<"i","n","t","e","r","n">>,
      <<"i","n","t","e","r","n","s","h","i","p">>,
      <<"t","h","e","s","i","s">>,
      <<"u","n","d","e","r","g","r","a","d">>,
      <<"u","n","d","e","r","g","r","a","d","u","a","t","e">> }

\* \b(entry|associate|junior|jr)\b
ENTRY_RE ==
    { <<"a","s","s","o","c","i","a","t","e">>,
      <<"e","n","t","r","y">>,
      <<"j","r">>,
      <<"j","u","n","i","o","r">> }

\* \b(mid|executive assistant)\b
MID_RE ==
    { <<"e","x","e","c","u","t","i","v","e"," ","a","s","s","i","s","t","a","n","t">>,
      <<"m","i","d">> }

\* \b(senior|sn?r|expert|advanced?|principal|staff)\b
SENIOR_RE ==
    { <<"a","d","v","a","n","c","e">>,
      <<"a","d","v","a","n","c","e","d">>,
      <<"e","x","p","e","r","t">>,
      <<"p","r","i","n","c","i","p","a","l">>,
      <<"s","e","n","i","o","r">>,
      <<"s","n","r">>,
      <<"s","r">>,
      <<"s","t","a","f","f">> }

\* \b(lead|director|president|executive|head|architect)\b
LEAD_RE ==
    { <<"a","r","c","h","i","t","e","c","t">>,
      <<"d","i","r","e","c","t","o","r">>,
      <<"e","x","e","c","u","t","i","v","e">>,
      <<"h","e","a","d">>,
      <<"l","e","a","d">>,
      <<"p","r","e","s","i","d","e","n","t">> }

\* \b(automation|build|release|security|devops?|test(ing)?|sdet|reliability|sre|(platforms?|data|migration) engineer(ing)?)\b
AUTOMATION_RE ==
    { <<"a","u","t","o","m","a","t","i","o","n">>,
      <<"b","u","i","l","d">>,
      <<"d","a","t","a"," ","e","n","g","i","n","e","e","r">>,
      <<"d","a","t","a"," ","e","n","g","i","n","e","e","r","i","n","g">>,
      <<"d","e","v","o","p">>,
      <<"d","e","v","o","p","s">>,
      <<"m","i","g","r","a","t","i","o","n"," ","e","n","g","i","n","e","e","r">>,
      <<"m","i","g","r","a","t","i","o","n"," ","e","n","g","i","n","e","e","r","i","n","g">>,
      <<"p","l","a","t","f","o","r","m"," ","e","n","g","i","n","e","e","r">>,
      <<"p","l","a","t","f","o","r","m"," ","e","n","g","i","n","e","e","r","i","n","g">>,
      <<"p","l","a","t","f","o","r","m","s"," ","e","n","g","i","n","e","e","r">>,
      <<"p","l","a","t","f","o","r","m","s"," ","e","n","g","i","n","e","e","r","i","n","g">>,
      <<"r","e","l","e","a","s","e">>,
      <<"r","e","l","i","a","b","i","l","i","t","y">>,
      <<"s","d","e","t">>,
      <<"s","e","c","u","r","i","t","y">>,
      <<"s","r","e">>,
      <<"t","e","s","t">>,
      <<"t","e","s","t","i","n","g">> }

\* \b(web|front ?end)\b
WEB_RE ==
    { <<"f","r","o","n","t"," ","e","n","d">>,
      <<"f","r","o","n","t","e","n","d">>,
      <<"w","e","b">> }

\* \b(graphics|rendering|art|technical artist)\b
GRAPHICS_RE ==
    { <<"a","r","t">>,
      <<"g","r","a","p","h","i","c","s">>,
      <<"r","e","n","d","e","r","i","n","g">>,
      <<"t","e","c","h","n","i","c","a","l"," ","a","r","t","i","s","t">> }

\* \b(animation)\b
ANIMATION_RE ==
    { <<"a","n","i","m","a","t","i","o","n">> }

\* \b(physics)\b
PHYSICS_RE ==
    { <<"p","h","y","s","i","c","s">> }

\* \b(audio)\b
AUDIO_RE ==
    { <<"a","u","d","i","o">> }

\* \b(computer vision|machine learning)\b
AI_RE ==
    { <<"c","o","m","p","u","t","e","r"," ","v","i","s","i","o","n">>,
      <<"m","a","c","h","i","n","e"," ","l","e","a","r","n","i","n","g">> }

\* \b(ui|ux|user interface|user experience)\b
UI_RE ==
    { <<"u","i">>,
      <<"u","s","e","r"," ","e","x","p","e","r","i","e","n","c","e">>,
      <<"u","s","e","r"," ","i","n","t","e","r","f","a","c","e">>,
      <<"u","x">> }

\* \b(network|server|services?|backend)\b
NETWORK_RE ==
    { <<"b","a","c","k","e","n","d">>,
      <<"n","e","t","w","o","r","k">>,
      <<"s","e","r","v","e","r">>,
      <<"s","e","r","v","i","c","e">>,
      <<"s","e","r","v","i","c","e","s">> }

\* \b(engine programmer|tools|technology)\b
ENGINE_RE ==
    { <<"e","n","g","i","n","e"," ","p","r","o","g","r","a","m","m","e","r">>,
      <<"t","e","c","h","n","o","l","o","g","y">>,
      <<"t","o","o","l","s">> }

\* \b(gameplay|game|unity|unreal)\b
GAMEPLAY_RE ==
    { <<"g","a","m","e">>,
      <<"g","a","m","e","p","l","a","y">>,
      <<"u","n","i","t","y">>,
      <<"u","n","r","e","a","l">> }

\* \b(ai)\b
SOFT_AI_RE ==
    { <<"a","i">> }

\* \b(manager|director|president|coordinator|producer)\b
MANAGER_RE ==
    { <<"c","o","o","r","d","i","n","a","t","o","r">>,
      <<"d","i","r","e","c","t","o","r">>,
      <<"m","a","n","a","g","e","r">>,
      <<"p","r","e","s","i","d","e","n","t">>,
      <<"p","r","o","d","u","c","e","r">> }

\* \b(tester|qa|quality engineer(ing)?)\b
TESTER_RE ==
    { <<"q","a">>,
      <<"q","u","a","l","i","t","y"," ","e","n","g","i","n","e","e","r">>,
      <<"q","u","a","l","i","t","y"," ","e","n","g","i","n","e","e","r","i","n","g">>,
      <<"t","e","s","t","e","r">> }

\* \b((bi|support|privacy|facility|mechatronics|enterprise solution) engineer(ing)?|it|information technology|hr|human resources?|representative)\b
KNOWN_OTHER_RE ==
    { <<"b","i"," ","e","n","g","i","n","e","e","r">>,
      <<"b","i"," ","e","n","g","i","n","e","e","r","i","n","g">>,
      <<"e","n","t","e","r","p","r","i","s","e"," ","s","o","l","u","t","i","o","n"," ","e","n","g","i","n","e","e","r">>,
      <<"e","n","t","e","r","p","r","i","s","e"," ","s","o","l","u","t","i","o","n"," ","e","n","g","i","n","e","e","r","i","n","g">>,
      <<"f","a","c","i","l","i","t","y"," ","e","n","g","i","n","e","e","r">>,
      <<"f","a","c","i","l","i","t","y"," ","e","n","g","i","n","e","e","r","i","n","g">>,
      <<"h","r">>,
      <<"h","u","m","a","n"," ","r","e","s","o","u","r","c","e">>,
      <<"h","u","m","a","n"," ","r","e","s","o","u","r","c","e","s">>,
      <<"i","n","f","o","r","m","a","t","i","o","n"," ","t","e","c","h","n","o","l","o","g","y">>,
      <<"i","t">>,
      <<"m","e","c","h","a","t","r","o","n","i","c","s"," ","e","n","g","i","n","e","e","r">>,
      <<"m","e","c","h","a","t","r","o","n","i","c","s"," ","e","n","g","i","n","e","e","r","i","n","g">>,
      <<"p","r","i","v","a","c","y"," ","e","n","g","i","n","e","e","r">>,
      <<"p","r","i","v","a","c","y"," ","e","n","g","i","n","e","e","r","i","n","g">>,
      <<"r","e","p","r","e","s","e","n","t","a","t","i","v","e">>,
      <<"s","u","p","p","o","r","t"," ","e","n","g","i","n","e","e","r">>,
      <<"s","u","p","p","o","r","t"," ","e","n","g","i","n","e","e","r","i","n","g">> }

\* \b(programmer|coder|developer|engineer(ing)?|technical artist|swe|sre)\b
PROGRAMMER_RE ==
    { <<"c","o","d","e","r">>,
      <<"d","e","v","e","l","o","p","e","r">>,
      <<"e","n","g","i","n","e","e","r">>,
      <<"e","n","g","i","n","e","e","r","i","n","g">>,
      <<"p","r","o","g","r","a","m","m","e","r">>,
      <<"s","r","e">>,
      <<"s","w","e">>,
      <<"t","e","c","h","n","i","c","a","l"," ","a","r","t","i","s","t">> }

\* \b(specialist|researcher|scientist|analyst|assistant|responder|publishing|marketing|support)\b
OTHER_RE ==
    { <<"a","n","a","l","y","s","t">>,
      <<"a","s","s","i","s","t","a","n","t">>,
      <<"m","a","r","k","e","t","i","n","g">>,
      <<"p","u","b","l","i","s","h","i","n","g">>,
      <<"r","e","s","e","a","r","c","h","e","r">>,
      <<"r","e","s","p","o","n","d","e","r">>,
      <<"s","c","i","e","n","t","i","s","t">>,
      <<"s","p","e","c","i","a","l","i","s","t">>,
      <<"s","u","p","p","o","r","t">> }

\* \b(artist|animator|modeler|3d generalist)\b
ARTIST_RE ==
    { <<"3","d"," ","g","e","n","e","r","a","l","i","s","t">>,
      <<"a","n","i","m","a","t","o","r">>,
      <<"a","r","t","i","s","t">>,
      <<"m","o","d","e","l","e","r">> }

\* \b(writer)\b
WRITER_RE ==
    { <<"w","r","i","t","e","r">> }

\* \b(composer)\b
COMPOSER_RE ==
    { <<"c","o","m","p","o","s","e","r">> }

\* \b(designer|architect)\b
DESIGNER_RE ==
    { <<"a","r","c","h","i","t","e","c","t">>,
      <<"d","e","s","i","g","n","e","r">> }

\* \b(lead|head)\b
HEAD_RE ==
    { <<"h","e","a","d">>,
      <<"l","e","a","d">> }

\* \b(generalist)\b
GENERALIST_RE ==
    { <<"g","e","n","e","r","a","l","i","s","t">> }

\* \b(general application|drop box)\b
GENERAL_APPLICATION_RE ==
    { <<"d","r","o","p"," ","b","o","x">>,
      <<"g","e","n","e","r","a","l"," ","a","p","p","l","i","c","a","t","i","o","n">> }

\* -------------------------------------------------------------- Classifier
\* parse_level with a fault: the default is Lead.
parse_level_default_lead(norm) ==
    IF is_match(INTERN_RE, norm) THEN "Intern"
    ELSE IF is_match(ENTRY_RE, norm) THEN "Entry"
    ELSE IF is_match(MID_RE, norm) THEN "Mid"
    ELSE IF is_match(SENIOR_RE, norm) THEN "Senior"
    ELSE IF is_match(LEAD_RE, norm) THEN "Lead"
    ELSE "Lead"

\* parse_level with a fault: the Lead rule is tried before the Mid rule.
parse_level_lead_before_mid(norm) ==
    IF is_match(INTERN_RE, norm) THEN "Intern"
    ELSE IF is_match(ENTRY_RE, norm) THEN "Entry"
    ELSE IF is_match(LEAD_RE, norm) THEN "Lead"
    ELSE IF is_match(MID_RE, norm) THEN "Mid"
    ELSE IF is_match(SENIOR_RE, norm) THEN "Senior"
    ELSE "Mid"

\* parse_level (job.rs 173-202)
parse_level(norm) ==
    IF is_match(INTERN_RE, norm) THEN "Intern"
    ELSE IF is_match(ENTRY_RE, norm) THEN "Entry"
    ELSE IF is_match(MID_RE, norm) THEN "Mid"
    ELSE IF is_match(SENIOR_RE, norm) THEN "Senior"
    ELSE IF is_match(LEAD_RE, norm) THEN "Lead"
    ELSE "Mid"

\* parse_specialty with a fault: the word "ai" is tried with the phrases.
parse_specialty_ai_at_once(norm) ==
    IF is_match(AUTOMATION_RE, norm) THEN Some("Automation")
    ELSE IF is_match(WEB_RE, norm) THEN Some("Web")
    ELSE IF is_match(GRAPHICS_RE, norm) THEN Some("Graphics")
    ELSE IF is_match(ANIMATION_RE, norm) THEN Some("Animation")
    ELSE IF is_match(PHYSICS_RE, norm) THEN Some("Physics")
    ELSE IF is_match(AUDIO_RE, norm) THEN Some("Audio")
    ELSE IF is_match(AI_RE, norm) \/ is_match(SOFT_AI_RE, norm) THEN Some("Ai")
    ELSE IF is_match(UI_RE, norm) THEN Some("Ui")
    ELSE IF is_match(NETWORK_RE, norm) THEN Some("Network")
    ELSE IF is_match(ENGINE_RE, norm) THEN Some("Engine")
    ELSE IF is_match(GAMEPLAY_RE, norm) THEN Some("Gameplay")
    ELSE None

\* parse_specialty (job.rs 204-252)
parse_specialty(norm) ==
    IF is_match(AUTOMATION_RE, norm) THEN Some("Automation")
    ELSE IF is_match(WEB_RE, norm) THEN Some("Web")
    ELSE IF is_match(GRAPHICS_RE, norm) THEN Some("Graphics")
    ELSE IF is_match(ANIMATION_RE, norm) THEN Some("Animation")
    ELSE IF is_match(PHYSICS_RE, norm) THEN Some("Physics")
    ELSE IF is_match(AUDIO_RE, norm) THEN Some("Audio")
    ELSE IF is_match(AI_RE, norm) THEN Some("Ai")
    ELSE IF is_match(UI_RE, norm) THEN Some("Ui")
    ELSE IF is_match(NETWORK_RE, norm) THEN Some("Network")
    ELSE IF is_match(ENGINE_RE, norm) THEN Some("Engine")
    ELSE IF is_match(GAMEPLAY_RE, norm) THEN Some("Gameplay")
    ELSE IF is_match(SOFT_AI_RE, norm) THEN Some("Ai")
    ELSE None

\* parse_discipline with a fault: the Programmer rule is tried first.
parse_discipline_programmer_first(norm) ==
    IF is_match(PROGRAMMER_RE, norm) THEN "Programmer"
    ELSE IF is_match(MANAGER_RE, norm) THEN "Manager"
    ELSE IF is_match(TESTER_RE, norm) THEN "Tester"
    ELSE IF is_match(KNOWN_OTHER_RE, norm) THEN "Other"
    ELSE IF is_match(OTHER_RE, norm) THEN "Other"
    ELSE IF is_match(ARTIST_RE, norm) THEN "Artist"
    ELSE IF is_match(WRITER_RE, norm) THEN "Writer"
    ELSE IF is_match(COMPOSER_RE, norm) THEN "Composer"
    ELSE IF is_match(DESIGNER_RE, norm) THEN "Designer"
    ELSE IF is_match(HEAD_RE, norm) THEN "Manager"
    ELSE IF is_match(GENERALIST_RE, norm) THEN "Programmer"
    ELSE "Other"

\* parse_discipline (job.rs 254-306)
parse_discipline(norm) ==
    IF is_match(MANAGER_RE, norm) THEN "Manager"
    ELSE IF is_match(TESTER_RE, norm) THEN "Tester"
    ELSE IF is_match(KNOWN_OTHER_RE, norm) THEN "Other"
    ELSE IF is_match(PROGRAMMER_RE, norm) THEN "Programmer"
    ELSE IF is_match(OTHER_RE, norm) THEN "Other"
    ELSE IF is_match(ARTIST_RE, norm) THEN "Artist"
    ELSE IF is_match(WRITER_RE, norm) THEN "Writer"
    ELSE IF is_match(COMPOSER_RE, norm) THEN "Composer"
    ELSE IF is_match(DESIGNER_RE, norm) THEN "Designer"
    ELSE IF is_match(HEAD_RE, norm) THEN "Manager"
    ELSE IF is_match(GENERALIST_RE, norm) THEN "Programmer"
    ELSE "Other"

\* parse_is_general_application with a fault: a Manager's title never has
\* the flag.
parse_is_general_application_unless_manager(norm) ==
    is_match(GENERAL_APPLICATION_RE, norm) /\ ~is_match(MANAGER_RE, norm)

\* parse_is_general_application (job.rs 308-315)
parse_is_general_application(norm) == is_match(GENERAL_APPLICATION_RE, norm)

\* --------------------------------------------------------------------- Job
\* Job.missing_since of a freshly built Job.
missing_since_default == None

\* "Jr. Coder", "QA Lead" and "Junior Coder"
Title1 == <<"J","r","."," ","C","o","d","e","r">>
Title2 == <<"Q","A"," ","L","e","a","d">>
Title3 == <<"J","u","n","i","o","r"," ","C","o","d","e","r">>
Titles == {Title1, Title2, Title3}

\* The four attributes Job::new and Job::reparse compute from a title
\* (job.rs 46, 54-57 and 62-66).
classify(title) ==
    LET norm == normalized(title)
    IN  [ level                  |-> parse_level(norm),
          specialty              |-> parse_specialty(norm),
          discipline             |-> parse_discipline(norm),
          is_general_application |-> parse_is_general_application(norm) ]

\* classify on the titles of the postings, computed once.
classified == [t \in Titles |-> classify(t)]

\* Job_new with a fault: the stamp is the default DateTime, not the clock's.
Job_new_unstamped(source, company, url, title, t) ==
    LET c == classified[title]
    IN  [ first_seen             |-> 0,
          missing_since          |-> missing_since_default,
          source                 |-> source,
          company                |-> company,
          url                    |-> url,
          title                  |-> title,
          level                  |-> c.level,
          specialty              |-> c.specialty,
          discipline             |-> c.discipline,
          is_general_application |-> c.is_general_application ]

\* Job::new at clock reading t.
Job_new(source, company, url, title, t) ==
    LET c == classified[title]
    IN  [ first_seen             |-> t,
          missing_since          |-> missing_since_default,
          source                 |-> source,
          company                |-> company,
          url                    |-> url,
          title                  |-> title,
          level                  |-> c.level,
          specialty              |-> c.specialty,
          discipline             |-> c.discipline,
          is_general_application |-> c.is_general_application ]

\* reparse with a fault: the discipline is not parsed again.
reparse_but_discipline(job) ==
    LET c == classified[job.title]
    IN  [job EXCEPT !.level                  = c.level,
                    !.specialty              = c.specialty,
                    !.is_general_application = c.is_general_application]

\* Job::reparse
reparse(job) ==
    LET c == classified[job.title]
    IN  [job EXCEPT !.level                  = c.level,
                    !.specialty              = c.specialty,
                    !.discipline             = c.discipline,
                    !.is_general_application = c.is_general_application]

\* ----------------------------------------------------------------- HashMap
\* A HashMap<String, Job> is a function from its set of keys.
EmptyMap == [k \in {} |-> 0]
contains_key(m, k) == k \in DOMAIN m
insert(m, k, v) == [x \in DOMAIN m \cup {k} |-> IF x = k THEN v ELSE m[x]]
extend(m, n) ==
    [k \in DOMAIN m \cup DOMAIN n |-> IF k \in DOMAIN n THEN n[k] ELSE m[k]]
map_len(m) == Cardinality(DOMAIN m)

\* ------------------------------------------------------------ the postings
Ids == {"j1", "j2"}

\* The ids of the stores that are listed.
RankIds == {"j1", "j2", "j3"}

SourceNames == <<"A", "B">>

\* What a page shows for one posting.
Obs1 == [company |-> "Acme", url |-> "u1", title |-> Title1]
Obs2 == [company |-> "Bolt", url |-> "u2", title |-> Title2]
Observations == {Obs1, Obs2}

\* One chunk of page HTML between two next_job_re matches: the captures of
\* the source's regexes, or a chunk in which a capture fails.
NoMatch == [matched |-> FALSE, id |-> "", company |-> "", url |-> "", title |-> <<>>]
Chunk(i, o) ==
    [matched |-> TRUE, id |-> i, company |-> o.company, url |-> o.url,
     title |-> o.title]

\* The pages of a source, each the sequence of its chunks.  Both sources
\* list a posting under the id "j1"; "j2" is a posting of source "B" alone.
\* A page is empty, holds one chunk, or holds two: the same id twice, or
\* two ids.
PagesOf(name) ==
    IF name = "A"
    THEN { <<>>, <<NoMatch>>, <<Chunk("j1", Obs1)>>, <<Chunk("j1", Obs2)>>,
           <<Chunk("j1", Obs1), Chunk("j1", Obs2)>> }
    ELSE { <<>>, <<NoMatch>>, <<Chunk("j1", Obs1)>>, <<Chunk("j2", Obs1)>>,
           <<Chunk("j1", Obs1), Chunk("j2", Obs1)>> }

\* --------------------------------------------------------------- JobSource
\* JobSource::parse_page, from chunk k on: jobs is the map so far, warned
\* the ids logged as duplicates.
RECURSIVE parse_page_from(_, _, _, _, _, _)
parse_page_from(name, chunks, k, t, jobs, warned) ==
    IF k > Len(chunks) THEN [jobs |-> jobs, warned |-> warned]
    ELSE LET c == chunks[k] IN
         IF ~c.matched
         THEN parse_page_from(name, chunks, k + 1, t, jobs, warned)
         ELSE parse_page_from(name, chunks, k + 1, t,
                  insert(jobs, c.id, Job_new(name, c.company, c.url, c.title, t)),
                  IF contains_key(jobs, c.id) THEN warned \cup {c.id} ELSE warned)

parse_page(name, chunks, t) == parse_page_from(name, chunks, 1, t, EmptyMap, {})

\* ------------------------------------------------------------------ sorted
\* score with a fault: the weight of Designer is 105.
score_designer_liked(job) ==
    LET general == IF job.is_general_application THEN -10 ELSE 0
        level == CASE job.level = "Intern" -> -1000
                   [] job.level = "Entry"  -> 10
                   [] job.level = "Mid"    -> 0
                   [] job.level = "Senior" -> -500
                   [] job.level = "Lead"   -> -1000
        discipline == CASE job.discipline = "Programmer" -> 100
                        [] job.discipline = "Designer"   -> 105
                        [] job.discipline = "Artist"     -> -105
                        [] job.discipline = "Writer"     -> -110
                        [] job.discipline = "Composer"   -> -110
                        [] job.discipline = "Tester"     -> -125
                        [] job.discipline = "Manager"    -> -150
                        [] job.discipline = "Other"      -> -110
        specialty == CASE job.specialty = Some("Gameplay")   -> 100
                       [] job.specialty = Some("Graphics")   -> 1
                       [] job.specialty = Some("Engine")     -> 1
                       [] job.specialty = Some("Physics")    -> -5
                       [] job.specialty = Some("Animation")  -> -100
                       [] job.specialty = Some("Ai")         -> -100
                       [] job.specialty = Some("Audio")      -> -110
                       [] job.specialty = Some("Ui")         -> -120
                       [] job.specialty = Some("Network")    -> -150
                       [] job.specialty = Some("Automation") -> -150
                       [] job.specialty = Some("Web")        -> -150
                       [] job.specialty = None               -> 0
    IN  10 * (general + level + discipline + specialty)

\* Job::score (job.rs 70-109).  The sum is within -22700..2100 and the
\* ages are days of the model's clock: no i32 operation here or in sorted
\* overflows.
score(job) ==
    LET general == IF job.is_general_application THEN -10 ELSE 0
        level == CASE job.level = "Intern" -> -1000
                   [] job.level = "Entry"  -> 10
                   [] job.level = "Mid"    -> 0
                   [] job.level = "Senior" -> -500
                   [] job.level = "Lead"   -> -1000
        discipline == CASE job.discipline = "Programmer" -> 100
                        [] job.discipline = "Designer"   -> -105
                        [] job.discipline = "Artist"     -> -105
                        [] job.discipline = "Writer"     -> -110
                        [] job.discipline = "Composer"   -> -110
                        [] job.discipline = "Tester"     -> -125
                        [] job.discipline = "Manager"    -> -150
                        [] job.discipline = "Other"      -> -110
        specialty == CASE job.specialty = Some("Gameplay")   -> 100
                       [] job.specialty = Some("Graphics")   -> 1
                       [] job.specialty = Some("Engine")     -> 1
                       [] job.specialty = Some("Physics")    -> -5
                       [] job.specialty = Some("Animation")  -> -100
                       [] job.specialty = Some("Ai")         -> -100
                       [] job.specialty = Some("Audio")      -> -110
                       [] job.specialty = Some("Ui")         -> -120
                       [] job.specialty = Some("Network")    -> -150
                       [] job.specialty = Some("Automation") -> -150
                       [] job.specialty = Some("Web")        -> -150
                       [] job.specialty = None               -> 0
    IN  10 * (general + level + discipline + specialty)

\* The characters of the model's alphabet in the order of their bytes.
ByteOrder ==
    <<" ", ".", "0","1","2","3","4","5","6","7","8","9">>
        \o UpperChars \o <<"_">> \o LowerChars
byte(c) == CHOOSE i \in DOMAIN ByteOrder : ByteOrder[i] = c

\* The characters of a company's name.
company_chars(company) ==
    CASE company = "Acme" -> <<"A","c","m","e">>
      [] company = "Bolt" -> <<"B","o","l","t">>

\* Ord for str: -1, 0 or 1 as a is less than, equal to or greater than b,
\* byte by byte, a prefix before what it is a prefix of.
RECURSIVE str_cmp(_, _)
str_cmp(a, b) ==
    IF a = <<>> /\ b = <<>> THEN 0
    ELSE IF a = <<>> THEN -1
    ELSE IF b = <<>> THEN 1
    ELSE IF byte(a[1]) < byte(b[1]) THEN -1
    ELSE IF byte(a[1]) > byte(b[1]) THEN 1
    ELSE str_cmp(Tail(a), Tail(b))

\* Ord for bool and i32
bool_cmp(a, b) == IF a = b THEN 0 ELSE IF b THEN -1 ELSE 1
int_cmp(a, b) == IF a = b THEN 0 ELSE IF a < b THEN -1 ELSE 1

\* sort_key with a fault: the tests of the age are negated.
sort_key_today_first(job, now_) ==
    LET age == num_days(now_ - job.first_seen)
    IN  << score(job) > 0, age # 0, age >= 7, score(job) - age,
           company_chars(job.company), job.title >>

\* sort_key with a fault: the title is left out.
sort_key_without_title(job, now_) ==
    LET age == num_days(now_ - job.first_seen)
    IN  << score(job) > 0, age = 0, age < 7, score(job) - age,
           company_chars(job.company), <<>> >>

\* sort_key with a fault: the test of the score is left out.
sort_key_without_score(job, now_) ==
    LET age == num_days(now_ - job.first_seen)
    IN  << FALSE, age = 0, age < 7, score(job) - age,
           company_chars(job.company), job.title >>

\* sort_key with a fault: the net value is negated.
sort_key_net_negated(job, now_) ==
    LET age == num_days(now_ - job.first_seen)
    IN  << score(job) > 0, age = 0, age < 7, age - score(job),
           company_chars(job.company), job.title >>

\* The key of sorted's closure (bot.rs 222-231).
sort_key(job, now_) ==
    LET age == num_days(now_ - job.first_seen)
    IN  << score(job) > 0, age = 0, age < 7, score(job) - age,
           company_chars(job.company), job.title >>

\* Ord for the key's tuple: the first component that differs decides.
key_cmp(k, l) ==
    IF k[1] # l[1] THEN bool_cmp(k[1], l[1])
    ELSE IF k[2] # l[2] THEN bool_cmp(k[2], l[2])
    ELSE IF k[3] # l[3] THEN bool_cmp(k[3], l[3])
    ELSE IF k[4] # l[4] THEN int_cmp(k[4], l[4])
    ELSE IF k[5] # l[5] THEN str_cmp(k[5], l[5])
    ELSE str_cmp(k[6], l[6])

\* s, sorted by key, with x put after the elements whose key is not
\* greater than x's.
insert_by_key(s, x, key) ==
    LET n == Cardinality({i \in DOMAIN s : key_cmp(key[s[i]], key[x]) <= 0})
    IN  SubSeq(s, 1, n) \o <<x>> \o SubSeq(s, n + 1, Len(s))

\* slice::sort_by_key: ascending by key, and stable.
RECURSIVE sort_by_key(_, _)
sort_by_key(ids, key) ==
    IF ids = <<>> THEN <<>>
    ELSE insert_by_key(sort_by_key(SubSeq(ids, 1, Len(ids) - 1), key),
                       ids[Len(ids)], key)

\* sorted (bot.rs 218-234): ids is the order jobs.keys() gives, now_ the
\* reading of Utc::now().
sorted(m, ids, now_) ==
    sort_by_key(ids, [id \in DOMAIN m |-> sort_key(m[id], now_)])

\* printed with a fault: the flagged postings are printed too.
printed_with_missing(m, order) == order

\* Bot::list_jobs (bot.rs 116-145): the ids of the lines printed, in the
\* order of the printing; order is what sorted returned.
printed(m, order) ==
    SelectSeq(order, LAMBDA id : is_none(m[id].missing_since))

\* ---------------------------------------------------- Bot::update_job_source
\* Result<HashMap<String, Job>>: the outcome of JobSource::scrape.
Ok(batch) == [is_ok |-> TRUE, jobs |-> batch]
Err == [is_ok |-> FALSE, jobs |-> EmptyMap]

\* is_newly_missing with a fault: the test of missing_since is left out.
is_newly_missing_again(old_jobs, name, batch, id) ==
    /\ old_jobs[id].source = name
    /\ ~contains_key(batch, id)

\* bot.rs 160-174: flag the old jobs of the source that are now missing.
is_newly_missing(old_jobs, name, batch, id) ==
    /\ old_jobs[id].source = name
    /\ ~contains_key(batch, id)
    /\ is_none(old_jobs[id].missing_since)

mark_missing(old_jobs, name, batch, now_) ==
    [id \in DOMAIN old_jobs |->
        IF is_newly_missing(old_jobs, name, batch, id)
        THEN [old_jobs[id] EXCEPT !.missing_since = Some(now_)]
        ELSE old_jobs[id]]

missing_events(old_jobs, name, batch, now_) ==
    { [kind |-> "missing", id |-> id,
       days |-> num_days(now_ - old_jobs[id].first_seen)] :
      id \in {i \in DOMAIN old_jobs : is_newly_missing(old_jobs, name, batch, i)} }

\* carry_first_seen with a fault: nothing is carried over.
carry_first_seen_dropped(old_jobs, batch) == batch

\* carry_first_seen with a fault: missing_since is carried over as well.
carry_first_seen_and_missing(old_jobs, batch) ==
    [id \in DOMAIN batch |->
        IF contains_key(old_jobs, id)
        THEN [batch[id] EXCEPT !.first_seen = old_jobs[id].first_seen,
                               !.missing_since = old_jobs[id].missing_since]
        ELSE batch[id]]

\* bot.rs 177-199: carry first_seen over to the jobs seen before.
carry_first_seen(old_jobs, batch) ==
    [id \in DOMAIN batch |->
        IF contains_key(old_jobs, id)
        THEN [batch[id] EXCEPT !.first_seen = old_jobs[id].first_seen]
        ELSE batch[id]]

seen_events(old_jobs, batch, now_) ==
    { [kind |-> "recovered", id |-> id,
       days |-> num_days(now_ - unwrap(old_jobs[id].missing_since))] :
      id \in {i \in DOMAIN batch :
                contains_key(old_jobs, i) /\ is_some(old_jobs[i].missing_since)} }
    \cup
    { [kind |-> "new", id |-> id, days |-> 0] :
      id \in {i \in DOMAIN batch : ~contains_key(old_jobs, i)} }

\* is_retained with a fault: <= for <.
is_retained_a_day_more(job, name, now_) ==
    \/ job.source # name
    \/ (IF is_some(job.missing_since)
        THEN num_days(now_ - unwrap(job.missing_since))
        ELSE 0) <= GraceDays

\* is_retained with a fault: the test of the source is left out.
is_retained_any_source(job, name, now_) ==
    (IF is_some(job.missing_since)
     THEN num_days(now_ - unwrap(job.missing_since))
     ELSE 0) < GraceDays

\* bot.rs 205-212: the closure of retain.
is_retained(job, name, now_) ==
    \/ job.source # name
    \/ (IF is_some(job.missing_since)
        THEN num_days(now_ - unwrap(job.missing_since))
        ELSE 0) < GraceDays

\* retain_fresh with a fault: every entry is kept.
retain_fresh_all(m, name, now_) == m

retain_fresh(m, name, now_) ==
    [id \in {i \in DOMAIN m : is_retained(m[i], name, now_)} |-> m[id]]

\* bot.rs 159-214, with marked the store after the loop of 160-174.
reconcile(old_jobs, name, batch, now_, marked) ==
    [ jobs  |-> retain_fresh(extend(marked, carry_first_seen(marked, batch)),
                             name, now_),
      log   |-> missing_events(old_jobs, name, batch, now_)
                  \cup seen_events(marked, batch, now_),
      is_ok |-> TRUE ]

\* update_job_source with a fault: the scrape's Err is not returned, and
\* the pass goes on with no jobs.
update_job_source_unchecked(old_jobs, name, scrape_result, now_) ==
    reconcile(old_jobs, name, scrape_result.jobs, now_,
              mark_missing(old_jobs, name, scrape_result.jobs, now_))

\* Bot::update_job_source once the scrape has returned scrape_result: the
\* next store, the events logged, and whether it returns Ok.
update_job_source(old_jobs, name, scrape_result, now_) ==
    IF ~scrape_result.is_ok
    THEN [jobs |-> old_jobs, log |-> {}, is_ok |-> FALSE]
    ELSE reconcile(old_jobs, name, scrape_result.jobs, now_,
                   mark_missing(old_jobs, name, scrape_result.jobs, now_))

\* Bot::fix_jobs
fix_jobs(m) == [id \in DOMAIN m |-> reparse(m[id])]

\* ------------------------------------------------------------------- files
\* A file's content: none (no file), text that ron does not parse, or the
\* text ron::to_string gives for a store, entry after entry.
Missing == [kind |-> "missing", text |-> <<>>]
Malformed == [kind |-> "malformed", text |-> <<>>]
RonFile(text) == [kind |-> "ron", text |-> text]

\* The orders a HashMap's iterator can give its keys.
Orders(S) ==
    {p \in [1..Cardinality(S) -> S] :
        \A a, b \in 1..Cardinality(S) : a # b => p[a] # p[b]}

\* ron::to_string(&self.jobs): the entries in the map's iteration order.
ron_to_string(m) ==
    {[k \in 1..Cardinality(DOMAIN m) |-> <<p[k], m[p[k]]>>] : p \in Orders(DOMAIN m)}

\* ron::from_str(&jobs_str)
RECURSIVE ron_from_str_at(_, _, _)
ron_from_str_at(text, k, m) ==
    IF k > Len(text)
    THEN m
    ELSE ron_from_str_at(text, k + 1, insert(m, text[k][1], text[k][2]))

ron_from_str(text) == ron_from_str_at(text, 1, EmptyMap)

\* Bot::load_jobs: the jobs it leaves in self.jobs, and whether it got to
\* its end; r! returns at a read or a parse that fails.
load_jobs(f, old_jobs) ==
    IF f.kind = "ron"
    THEN [jobs |-> ron_from_str(f.text), is_ok |-> TRUE]
    ELSE [jobs |-> old_jobs, is_ok |-> FALSE]

\* std::fs::copy(from, to): Ok with to holding from's content, or Err with
\* to as it was; Err when there is no file to copy.
fs_copy(from, to) ==
    {[is_ok |-> FALSE, to |-> to]}
        \cup IF from.kind = "missing"
             THEN {}
             ELSE {[is_ok |-> TRUE, to |-> from]}

\* std::fs::write(path, text): Ok with the file holding text, or Err with
\* the file as it was or cut short.
fs_write(to, text) ==
    {[is_ok |-> TRUE, to |-> RonFile(text)],
     [is_ok |-> FALSE, to |-> to],
     [is_ok |-> FALSE, to |-> Malformed]}

\* The pages a source shows the runs.
RunPagesOf(name) ==
    IF name = "A"
    THEN { <<>>, <<Chunk("j1", Obs1)>> }
    ELSE { <<>>, <<Chunk("j1", Obs2)>>, <<Chunk("j2", Obs1)>> }
\* ------------------------------------------------------------------ titles
\* The words the titles of the classifier's inputs are made of:
\* Mid, Senior, Lead, Executive, Assistant, Jr., Director, Manager,
\* Producer, Engineering, Engineer, Tester, QA, Artist, Designer, AI,
\* Gameplay, Machine, Learning, Computer, Vision, UI, Tools, Test,
\* General, Application, Drop, Box, Dropbox, Directors, Maintainer,
\* Wizard, of, Programmer, C++, Leader
Vocabulary ==
    { <<"M","i","d">>,
      <<"S","e","n","i","o","r">>,
      <<"L","e","a","d">>,
      <<"E","x","e","c","u","t","i","v","e">>,
      <<"A","s","s","i","s","t","a","n","t">>,
      <<"J","r",".">>,
      <<"D","i","r","e","c","t","o","r">>,
      <<"M","a","n","a","g","e","r">>,
      <<"P","r","o","d","u","c","e","r">>,
      <<"E","n","g","i","n","e","e","r","i","n","g">>,
      <<"E","n","g","i","n","e","e","r">>,
      <<"T","e","s","t","e","r">>,
      <<"Q","A">>,
      <<"A","r","t","i","s","t">>,
      <<"D","e","s","i","g","n","e","r">>,
      <<"A","I">>,
      <<"G","a","m","e","p","l","a","y">>,
      <<"M","a","c","h","i","n","e">>,
      <<"L","e","a","r","n","i","n","g">>,
      <<"C","o","m","p","u","t","e","r">>,
      <<"V","i","s","i","o","n">>,
      <<"U","I">>,
      <<"T","o","o","l","s">>,
      <<"T","e","s","t">>,
      <<"G","e","n","e","r","a","l">>,
      <<"A","p","p","l","i","c","a","t","i","o","n">>,
      <<"D","r","o","p">>,
      <<"B","o","x">>,
      <<"D","r","o","p","b","o","x">>,
      <<"D","i","r","e","c","t","o","r","s">>,
      <<"M","a","i","n","t","a","i","n","e","r">>,
      <<"W","i","z","a","r","d">>,
      <<"o","f">>,
      <<"P","r","o","g","r","a","m","m","e","r">>,
      <<"C","+","+">>,
      <<"L","e","a","d","e","r">> }

\* What stands between two words of a title.
Separators == { <<" ">>, <<"/">> }

\* Titles of more words, with blanks and punctuation: the empty title,
\* "   ", "-- / --", " Mid  Level ", "Director of Engineering",
\* "AI/Gameplay Programmer", "Machine Learning Engineer", "Senior/Lead
\* C++ Software Engineer", "Engineering Application Drop Box", "UI Artist
\* (Computer Vision)", "Lead AI Tools Tester", "QA Manager, General
\* Application", "President of Engineering", "QA Coordinator", "Technical
\* Generalist"
NamedTitles ==
    { <<>>,
      <<" "," "," ">>,
      <<"-","-"," ","/"," ","-","-">>,
      <<" ","M","i","d"," "," ","L","e","v","e","l"," ">>,
      <<"D","i","r","e","c","t","o","r"," ","o","f"," ","E","n","g","i","n","e","e","r","i","n","g">>,
      <<"A","I","/","G","a","m","e","p","l","a","y"," ","P","r","o","g","r","a","m","m","e","r">>,
      <<"M","a","c","h","i","n","e"," ","L","e","a","r","n","i","n","g"," ","E","n","g","i","n","e","e","r">>,
      <<"S","e","n","i","o","r","/","L","e","a","d"," ","C","+","+"," ","S","o","f","t","w","a","r","e"," ","E","n","g","i","n","e","e","r">>,
      <<"E","n","g","i","n","e","e","r","i","n","g"," ","A","p","p","l","i","c","a","t","i","o","n"," ","D","r","o","p"," ","B","o","x">>,
      <<"U","I"," ","A","r","t","i","s","t"," ","(","C","o","m","p","u","t","e","r"," ","V","i","s","i","o","n",")">>,
      <<"L","e","a","d"," ","A","I"," ","T","o","o","l","s"," ","T","e","s","t","e","r">>,
      <<"Q","A"," ","M","a","n","a","g","e","r",","," ","G","e","n","e","r","a","l"," ","A","p","p","l","i","c","a","t","i","o","n">>,
      <<"P","r","e","s","i","d","e","n","t"," ","o","f"," ","E","n","g","i","n","e","e","r","i","n","g">>,
      <<"Q","A"," ","C","o","o","r","d","i","n","a","t","o","r">>,
      <<"T","e","c","h","n","i","c","a","l"," ","G","e","n","e","r","a","l","i","s","t">> }

\* The titles given to the classifier: one word, two words with a
\* separator, and the named titles.
TitleInputs ==
    Vocabulary
      \cup {v \o s \o w : v \in Vocabulary, s \in Separators, w \in Vocabulary}
      \cup NamedTitles

\* ------------------------------------------------------------------- state
VARIABLES
    jobs,         \* Bot.jobs
    job_sources,  \* Bot.job_sources, by name
    clock,        \* what Utc::now() reads
    pc,           \* "idle", or "scrape" inside update_job_source's scrape
    idx,          \* update_job_source: idx
    now,          \* update_job_source: now
    scraped,      \* JobSource::scrape: jobs
    page,         \* JobSource::scrape: page
    last,         \* the operation the last step completed, with what it
                  \* read, returned and logged
    file,         \* the file at JOBS_FILE_PATH
    backup,       \* the file at JOBS_BACKUP_FILE_PATH
    run,          \* the binary that is running and where its main is
    trip,         \* per id, how far along missing and back its source's
                  \* last passes have brought it
    evicted,      \* per id, whether a pass has evicted it, and whether it
                  \* is back since
    warned,       \* the ids the last scrape logged as duplicates
    found,        \* per id, what the last scrape parsed under it
    ranked,       \* what sorted returned to the last list_jobs, and when
    item          \* a title, its normalizations and the Job built from it

vars == <<jobs, job_sources, clock, pc, idx, now, scraped, page, last,
          file, backup, run, trip, evicted, warned, found, ranked, item>>

\* No operation has just completed.
NoOp ==
    [op |-> "none", name |-> "", now |-> 0, is_ok |-> FALSE,
     scraped_ok |-> FALSE, batch |-> EmptyMap, log |-> {}, gone |-> {},
     retitled |-> {}]

\* No binary is running.
NoRun ==
    [main |-> "none", at |-> "", i |-> 0, loaded |-> FALSE, done |-> <<>>,
     exit |-> ""]

\* No pass has been made.
NoTrip == [id \in Ids |-> [stage |-> 0, src |-> "", fs |-> 0]]

\* No pass has evicted an id.
NoEvicted == [id \in Ids |-> "no"]

\* No scrape has parsed a posting: per id, the number of postings parsed,
\* the number of pages they were on, and the last one parsed.
NoFound == [id \in Ids |-> [n |-> 0, pages |-> 0, job |-> None]]

\* list_jobs has not run.
NoRanking == [at |-> 0, ids |-> <<>>, shown |-> <<>>]

\* No title is given.
NoItem == [title |-> <<>>, norms |-> <<>>, job |-> None, score |-> None]

\* Bot::new, with the job sources loaded.
InitBot ==
    /\ jobs = EmptyMap
    /\ job_sources = SourceNames
    /\ clock = 0
    /\ pc = "idle"
    /\ idx = 0
    /\ now = 0
    /\ scraped = EmptyMap
    /\ page = 0
    /\ last = NoOp

Init ==
    /\ InitBot
    /\ file = Missing
    /\ backup = Missing
    /\ run = NoRun
    /\ trip = NoTrip
    /\ evicted = NoEvicted
    /\ warned = {}
    /\ found = NoFound
    /\ ranked = NoRanking
    /\ item = NoItem

\* Time passes, up to a limit.  A scrape is short against a tick: the clock
\* ticks at most once while one is running.
Tick(limit) ==
    /\ clock < limit
    /\ pc = "scrape" => clock = now
    /\ clock' = clock + 1
    /\ last' = NoOp
    /\ UNCHANGED <<jobs, job_sources, pc, idx, now, scraped, page>>

\* update_job_source(i) up to the scrape's first page load (bot.rs 155-157,
\* job_source.rs 64-66).
BeginUpdate(i) ==
    /\ pc = "idle"
    /\ i \in DOMAIN job_sources
    /\ pc' = "scrape"
    /\ idx' = i
    /\ now' = clock
    /\ scraped' = EmptyMap
    /\ page' = 0
    /\ last' = NoOp
    /\ UNCHANGED <<jobs, job_sources, clock>>

\* One turn of the scrape's loop that ends at the next page's URL
\* (job_source.rs 68-124).
ScrapeNextPage(chunks) ==
    /\ pc = "scrape"
    /\ page + 1 < MaxPages
    /\ LET parsed == parse_page(job_sources[idx], chunks, clock)
       IN  scraped' = extend(scraped, parsed.jobs)
    /\ page' = page + 1
    /\ UNCHANGED <<jobs, job_sources, clock, pc, idx, now, last>>

\* What update_job_source did, for `last`: the source's name, its `now`,
\* whether the scrape returned Ok, the jobs the scrape had gathered, the
\* Result returned, the events logged, the ids removed from the store and
\* the ids whose entry got another title.
Done(old_jobs, name, now_, scrape_result, batch, done) ==
    [ op         |-> "update",
      name       |-> name,
      now        |-> now_,
      is_ok      |-> done.is_ok,
      scraped_ok |-> scrape_result.is_ok,
      batch      |-> batch,
      log        |-> done.log,
      gone       |-> DOMAIN old_jobs \ DOMAIN done.jobs,
      retitled   |-> {id \in DOMAIN old_jobs \cap DOMAIN done.jobs :
                        old_jobs[id].title # done.jobs[id].title} ]

\* update_job_source returns: its locals are gone.
Return ==
    /\ pc' = "idle"
    /\ idx' = 0
    /\ now' = 0
    /\ scraped' = EmptyMap
    /\ page' = 0

\* The turn of the scrape's loop that breaks (job_source.rs 98, 108), the
\* scrape's Ok(jobs) and the rest of update_job_source (bot.rs 159-214).
ScrapeLastPage(chunks) ==
    /\ pc = "scrape"
    /\ page < MaxPages
    /\ \E batch \in {extend(scraped, parse_page(job_sources[idx], chunks, clock).jobs)} :
       \E done \in {update_job_source(jobs, job_sources[idx], Ok(batch), now)} :
           /\ jobs' = done.jobs
           /\ last' = Done(jobs, job_sources[idx], now, Ok(batch), batch, done)
    /\ Return
    /\ UNCHANGED <<job_sources, clock>>

\* An await of the scrape returns Err (job_source.rs 70-122); `?` at
\* bot.rs 157 returns it.  batch is what the scrape had gathered.
ScrapeFail ==
    /\ pc = "scrape"
    /\ \E done \in {update_job_source(jobs, job_sources[idx], Err, now)} :
           /\ jobs' = done.jobs
           /\ last' = Done(jobs, job_sources[idx], now, Err, scraped, done)
    /\ Return
    /\ UNCHANGED <<job_sources, clock>>

\* Bot::fix_jobs
FixJobs ==
    /\ pc = "idle"
    /\ jobs' = fix_jobs(jobs)
    /\ last' = [NoOp EXCEPT !.op = "fix", !.is_ok = TRUE]
    /\ UNCHANGED <<job_sources, clock, pc, idx, now, scraped, page>>

\* The bot's passes and re-classifications over its store, with the files
\* left alone.
Next ==
    \/ Tick(MaxTime) /\ UNCHANGED <<file, backup, run, trip, evicted, warned, found, ranked, item>>
    \/ (\E i \in DOMAIN SourceNames : BeginUpdate(i))
          /\ UNCHANGED <<file, backup, run, trip, evicted, warned, found, ranked, item>>
    \/ (pc = "scrape" /\ \E chunks \in PagesOf(job_sources[idx]) : ScrapeNextPage(chunks))
          /\ UNCHANGED <<file, backup, run, trip, evicted, warned, found, ranked, item>>
    \/ (pc = "scrape" /\ \E chunks \in PagesOf(job_sources[idx]) : ScrapeLastPage(chunks))
          /\ UNCHANGED <<file, backup, run, trip, evicted, warned, found, ranked, item>>
    \/ ScrapeFail /\ UNCHANGED <<file, backup, run, trip, evicted, warned, found, ranked, item>>
    \/ FixJobs /\ UNCHANGED <<file, backup, run, trip, evicted, warned, found, ranked, item>>

Spec == Init /\ [][Next]_vars

\* --------------------------------------------------- passes, with the trips
\* trip after a pass of source l.name that returned Ok with batch l.batch
\* and left `store`.  Stage 1: the id was in the batch of its source's last
\* pass (fs: its first_seen after that pass).  Stage 2: it was in the batch
\* of the pass before and not in the last one's.  Stage 3: it was in the
\* batch, then not, then in the batch again.
RoundTrip(t, l, store) ==
    [id \in Ids |->
        IF id \in DOMAIN l.batch
        THEN IF t[id].stage = 2 /\ t[id].src = l.name
             THEN [t[id] EXCEPT !.stage = 3]
             ELSE [stage |-> 1, src |-> l.name, fs |-> store[id].first_seen]
        ELSE IF t[id].src # l.name
        THEN t[id]
        ELSE IF t[id].stage \in {1, 3}
        THEN [t[id] EXCEPT !.stage = 2]
        ELSE NoTrip[id]]

NextTrip ==
    \/ Tick(MaxTripTime) /\ UNCHANGED <<file, backup, run, trip, evicted, warned, found, ranked, item>>
    \/ (\E i \in DOMAIN SourceNames : BeginUpdate(i))
          /\ UNCHANGED <<file, backup, run, trip, evicted, warned, found, ranked, item>>
    \/ (pc = "scrape" /\ \E chunks \in PagesOf(job_sources[idx]) : ScrapeNextPage(chunks))
          /\ UNCHANGED <<file, backup, run, trip, evicted, warned, found, ranked, item>>
    \/ (pc = "scrape" /\ \E chunks \in PagesOf(job_sources[idx]) : ScrapeLastPage(chunks))
          /\ trip' = RoundTrip(trip, last', jobs')
          /\ UNCHANGED <<file, backup, run, evicted, warned, found, ranked, item>>
    \/ ScrapeFail /\ UNCHANGED <<file, backup, run, trip, evicted, warned, found, ranked, item>>
    \/ FixJobs /\ UNCHANGED <<file, backup, run, trip, evicted, warned, found, ranked, item>>

SpecTrip == Init /\ [][NextTrip]_vars

\* ------------------------------------------------ passes, with the evictions
\* The entries a pass of source `name` with `batch` at now_ finds in
\* `store` flagged missing for GraceDays days or more and does not see.
Expired(store, name, batch, now_) ==
    {id \in DOMAIN store :
        /\ store[id].source = name
        /\ id \notin DOMAIN batch
        /\ is_some(store[id].missing_since)
        /\ num_days(now_ - unwrap(store[id].missing_since)) >= GraceDays}

\* evicted after a pass of `name` at now_ that found `store` and returned
\* Ok with `batch`: an id is "evicted" from the pass its entry expired in
\* to the pass that has it in its batch, and "back" after that one.
Evictions(ev, store, name, batch, now_) ==
    [id \in Ids |->
        IF id \in Expired(store, name, batch, now_) THEN "evicted"
        ELSE IF id \notin DOMAIN batch THEN ev[id]
        ELSE IF ev[id] = "evicted" THEN "back"
        ELSE "no"]

NextEvict ==
    \/ Tick(MaxTime) /\ UNCHANGED <<file, backup, run, trip, evicted, warned, found, ranked, item>>
    \/ (\E i \in DOMAIN SourceNames : BeginUpdate(i))
          /\ UNCHANGED <<file, backup, run, trip, evicted, warned, found, ranked, item>>
    \/ (pc = "scrape" /\ \E chunks \in RunPagesOf(job_sources[idx]) : ScrapeNextPage(chunks))
          /\ UNCHANGED <<file, backup, run, trip, evicted, warned, found, ranked, item>>
    \/ (pc = "scrape" /\ \E chunks \in RunPagesOf(job_sources[idx]) : ScrapeLastPage(chunks))
          /\ evicted' = Evictions(evicted, jobs, job_sources[idx], last'.batch, now)
          /\ UNCHANGED <<file, backup, run, trip, warned, found, ranked, item>>
    \/ ScrapeFail /\ UNCHANGED <<file, backup, run, trip, evicted, warned, found, ranked, item>>
    \/ FixJobs /\ UNCHANGED <<file, backup, run, trip, evicted, warned, found, ranked, item>>

SpecEvict == Init /\ [][NextEvict]_vars

\* ------------------------------------------------ scrapes, with the warnings
\* The chunks of a page that parse to a posting with the id.
Postings(chunks, id) == SelectSeq(chunks, LAMBDA c : c.matched /\ c.id = id)

\* found after the scrape of `name` has parsed a page of `chunks` at t.
Found(p, name, chunks, t) ==
    [id \in Ids |->
        LET own == Postings(chunks, id)
            c   == own[Len(own)]
        IN  IF own = <<>> THEN p[id]
            ELSE [n     |-> p[id].n + Len(own),
                  pages |-> p[id].pages + 1,
                  job   |-> Some(Job_new(name, c.company, c.url, c.title, t))]]

\* JobSource::parse_page's log::warn! calls (job_source.rs 182-184), kept
\* over the pages of a scrape.
Warn(chunks) ==
    /\ warned' = warned \cup parse_page(job_sources[idx], chunks, clock).warned
    /\ found' = Found(found, job_sources[idx], chunks, clock)

NextWarn ==
    \/ Tick(MaxTripTime) /\ UNCHANGED <<file, backup, run, trip, evicted, warned, found, ranked, item>>
    \/ (\E i \in DOMAIN SourceNames : BeginUpdate(i))
          /\ warned' = {}
          /\ found' = NoFound
          /\ UNCHANGED <<file, backup, run, trip, evicted, ranked, item>>
    \/ (pc = "scrape" /\ \E chunks \in PagesOf(job_sources[idx]) :
            ScrapeNextPage(chunks) /\ Warn(chunks))
          /\ UNCHANGED <<file, backup, run, trip, evicted, ranked, item>>
    \/ (pc = "scrape" /\ \E chunks \in PagesOf(job_sources[idx]) :
            ScrapeLastPage(chunks) /\ Warn(chunks))
          /\ UNCHANGED <<file, backup, run, trip, evicted, ranked, item>>
    \/ ScrapeFail /\ UNCHANGED <<file, backup, run, trip, evicted, warned, found, ranked, item>>
    \/ FixJobs /\ UNCHANGED <<file, backup, run, trip, evicted, warned, found, ranked, item>>

SpecWarn == Init /\ [][NextWarn]_vars

\* ---------------------------------------------------------------- the lists
\* An entry that a binary with other patterns wrote to the jobs file: its
\* level, specialty and discipline are not what the title gives now.
StaleJob ==
    [Job_new("A", "Acme", "u1", Title1, 0) EXCEPT
        !.level = "Mid", !.specialty = Some("Web"), !.discipline = "Other",
        !.is_general_application = TRUE]

\* The postings of the stores that are listed: built by Job::new from a
\* title (and StaleJob, classified by other patterns), first seen 0, 1, 2
\* or 7 days before the tick before MaxRankTime.
RankAges == {0, 1, 2, 7}
RankJobs ==
    { [j EXCEPT !.first_seen = MaxRankTime - 1 - d * TicksPerDay] :
        j \in {Job_new("A", "Acme", "u1", Title1, 0),
               Job_new("B", "Acme", "u2", Title1, 0),
               Job_new("A", "Acme", "u1", Title3, 0),
               Job_new("B", "Bolt", "u2", Title2, 0),
               StaleJob},
        d \in RankAges }

InitRank ==
    /\ \E S \in SUBSET RankIds : jobs \in [S -> RankJobs]
    /\ job_sources = SourceNames
    /\ clock = MaxRankTime - 1
    /\ pc = "idle"
    /\ idx = 0
    /\ now = 0
    /\ scraped = EmptyMap
    /\ page = 0
    /\ last = NoOp
    /\ file = Missing
    /\ backup = Missing
    /\ run = NoRun
    /\ trip = NoTrip
    /\ evicted = NoEvicted
    /\ warned = {}
    /\ found = NoFound
    /\ ranked = NoRanking
    /\ item = NoItem

\* Bot::list_jobs (bot.rs 114-146); ids is the order jobs.keys() gives.
\* ranked keeps what sorted returned and, in shown, the ids of the lines
\* printed.
ListJobs ==
    /\ pc = "idle"
    /\ \E ids \in Orders(DOMAIN jobs) :
       \E order \in {sorted(jobs, ids, clock)} :
          ranked' = [at |-> clock, ids |-> order, shown |-> printed(jobs, order)]
    /\ last' = [NoOp EXCEPT !.op = "list", !.is_ok = TRUE]
    /\ UNCHANGED <<jobs, job_sources, clock, pc, idx, now, scraped, page,
                   file, backup, run, trip, evicted, warned, found, item>>

NextRank ==
    \/ Tick(MaxRankTime) /\ UNCHANGED <<file, backup, run, trip, evicted, warned, found, ranked, item>>
    \/ ListJobs

SpecRank == InitRank /\ [][NextRank]_vars

\* --------------------------------------------------------------- the titles
\* The variables of the bot, which no step on a title changes.
bot_vars == <<jobs, job_sources, clock, pc, idx, now, scraped, page, last,
              file, backup, run, trip, evicted, warned, found, ranked>>

InitTitle ==
    /\ InitBot
    /\ file = Missing
    /\ backup = Missing
    /\ run = NoRun
    /\ trip = NoTrip
    /\ evicted = NoEvicted
    /\ warned = {}
    /\ found = NoFound
    /\ ranked = NoRanking
    /\ \E title \in TitleInputs : item = [NoItem EXCEPT !.title = title]

\* normalized, applied to the title and then to what it returned.
Normalize ==
    /\ Len(item.norms) < MaxNormalize
    /\ item' = [item EXCEPT !.norms =
                   Append(@, normalized(IF @ = <<>> THEN item.title ELSE @[Len(@)]))]
    /\ UNCHANGED bot_vars

\* Job::new on the title (job.rs 46, 54-57).
Classify ==
    /\ is_none(item.job)
    /\ item' = [item EXCEPT !.job = Some(classify(item.title))]
    /\ UNCHANGED bot_vars

\* Job::score on the Job.
Score ==
    /\ is_some(item.job)
    /\ is_none(item.score)
    /\ item' = [item EXCEPT !.score = Some(score(unwrap(item.job)))]
    /\ UNCHANGED bot_vars

NextTitle ==
    \/ Normalize
    \/ Classify
    \/ Score

SpecTitle == InitTitle /\ [][NextTitle]_vars

\* The values of JobLevel, JobSpecialty and JobDiscipline (job.rs 113-153).
JobLevel == {"Intern", "Entry", "Mid", "Senior", "Lead"}
JobSpecialty ==
    {"Automation", "Web", "Graphics", "Animation", "Physics", "Audio", "Ai",
     "Ui", "Network", "Engine", "Gameplay"}
JobDiscipline ==
    {"Programmer", "Designer", "Artist", "Writer", "Composer", "Tester",
     "Manager", "Other"}

\* A Job as the jobs file can give it: any level, specialty, discipline
\* and flag.
InitScore ==
    /\ InitBot
    /\ file = Missing
    /\ backup = Missing
    /\ run = NoRun
    /\ trip = NoTrip
    /\ evicted = NoEvicted
    /\ warned = {}
    /\ found = NoFound
    /\ ranked = NoRanking
    /\ \E l \in JobLevel, s \in {None} \cup {Some(x) : x \in JobSpecialty},
          d \in JobDiscipline, g \in BOOLEAN :
          item = [NoItem EXCEPT !.job =
                     Some([level |-> l, specialty |-> s, discipline |-> d,
                           is_general_application |-> g])]

NextScore == Score

SpecScore == InitScore /\ [][NextScore]_vars

\* ------------------------------------------------------------- the binaries
\* The files a run can find: no jobs file, one that does not parse, the
\* empty store's, or a store's that an earlier binary wrote.
InitRun ==
    /\ InitBot
    /\ file \in {Missing, Malformed, RonFile(<<>>), RonFile(<<<<"j1", StaleJob>>>>)}
    /\ backup = Missing
    /\ run = NoRun
    /\ trip = NoTrip
    /\ evicted = NoEvicted
    /\ warned = {}
    /\ found = NoFound
    /\ ranked = NoRanking
    /\ item = NoItem

\* Between runs time passes.
TickOff ==
    /\ run.main = "none"
    /\ Tick(MaxRunTime)
    /\ run' = NoRun
    /\ UNCHANGED <<file, backup, trip, evicted, warned, found, ranked, item>>

\* A binary starts: Bot::new (scrape.rs 7, fix.rs 7, list.rs 7), with jobs
\* empty.  When a binary ends its Bot is gone.
Start(main) ==
    /\ run.main = "none"
    /\ pc = "idle"
    /\ run' = [NoRun EXCEPT !.main = main, !.at = "load", !.i = 1]
    /\ jobs' = EmptyMap
    /\ last' = NoOp
    /\ UNCHANGED <<job_sources, clock, pc, idx, now, scraped, page, file, backup, trip, evicted, warned, found, ranked, item>>

\* scrape.rs 8: Bot::init returns Err, and ? ends main with it.
InitFail ==
    /\ run.main = "none"
    /\ pc = "idle"
    /\ run' = [NoRun EXCEPT !.at = "init_failed", !.exit = "err"]
    /\ last' = NoOp
    /\ UNCHANGED <<jobs, job_sources, clock, pc, idx, now, scraped, page, file, backup, trip, evicted, warned, found, ranked, item>>

\* How main can end once the store is saved or not: scrape.rs 12 returns
\* what Bot::quit returns; fix.rs and list.rs return ().
Exits(main) == IF main = "scrape" THEN {"ok", "err"} ELSE {"ok"}

\* Bot::load (scrape.rs 9), Bot::load_jobs (fix.rs 8, list.rs 8)
Load ==
    /\ run.main # "none"
    /\ run.at = "load"
    /\ \E got \in {load_jobs(file, jobs)} :
          /\ jobs' = got.jobs
          /\ run' = [run EXCEPT !.loaded = got.is_ok,
                                !.at = CASE run.main = "scrape" -> "update"
                                         [] run.main = "fix" -> "fix"
                                         [] OTHER -> "list"]
    /\ last' = NoOp
    /\ UNCHANGED <<job_sources, clock, pc, idx, now, scraped, page, file, backup, trip, evicted, warned, found, ranked, item>>

\* Bot::update_jobs: the loop's turn for run.i calls update_job_source.
UpdateBegin ==
    /\ run.main = "scrape"
    /\ run.at = "update"
    /\ BeginUpdate(run.i)
    /\ UNCHANGED <<file, backup, run, trip, evicted, warned, found, ranked, item>>

\* Bot::update_jobs: update_job_source returned Ok; the loop goes on.
UpdateOk(chunks) ==
    /\ run.main = "scrape"
    /\ ScrapeLastPage(chunks)
    /\ run' = [run EXCEPT !.i = @ + 1,
                          !.done = Append(@, [name |-> job_sources[idx], is_ok |-> TRUE])]
    /\ UNCHANGED <<file, backup, trip, evicted, warned, found, ranked, item>>

\* UpdateErr with a fault: the Err ends update_jobs.
UpdateErr_returns ==
    /\ run.main = "scrape"
    /\ ScrapeFail
    /\ run' = [run EXCEPT !.at = "save",
                          !.done = Append(@, [name |-> job_sources[idx], is_ok |-> FALSE])]
    /\ UNCHANGED <<file, backup, trip, evicted, warned, found, ranked, item>>

\* Bot::update_jobs: update_job_source returned Err; cq! goes on to the
\* next source and logs nothing.
UpdateErr ==
    /\ run.main = "scrape"
    /\ ScrapeFail
    /\ run' = [run EXCEPT !.i = @ + 1,
                          !.done = Append(@, [name |-> job_sources[idx], is_ok |-> FALSE])]
    /\ UNCHANGED <<file, backup, trip, evicted, warned, found, ranked, item>>

\* Bot::update_jobs returns after the last source.
UpdateEnd ==
    /\ run.main = "scrape"
    /\ run.at = "update"
    /\ pc = "idle"
    /\ run.i > Len(job_sources)
    /\ run' = [run EXCEPT !.at = "save"]
    /\ last' = NoOp
    /\ UNCHANGED <<jobs, job_sources, clock, pc, idx, now, scraped, page, file, backup, trip, evicted, warned, found, ranked, item>>

\* fix.rs 9
Fix ==
    /\ run.main = "fix"
    /\ run.at = "fix"
    /\ FixJobs
    /\ run' = [run EXCEPT !.at = "save"]
    /\ UNCHANGED <<file, backup, trip, evicted, warned, found, ranked, item>>

\* list.rs 9: Bot::list_jobs prints, and the binary ends.
List ==
    /\ run.main = "list"
    /\ run.at = "list"
    /\ run' = [NoRun EXCEPT !.at = "listed", !.exit = "ok"]
    /\ last' = NoOp
    /\ jobs' = EmptyMap
    /\ UNCHANGED <<job_sources, clock, pc, idx, now, scraped, page, file, backup, trip, evicted, warned, found, ranked, item>>

\* SaveCopy with a fault: save_jobs without its copy.
SaveCopy_skipped ==
    /\ run.main # "none"
    /\ run.at = "save"
    /\ run' = [run EXCEPT !.at = "write"]
    /\ last' = NoOp
    /\ UNCHANGED <<jobs, job_sources, clock, pc, idx, now, scraped, page, file, backup, trip, evicted, warned, found, ranked, item>>

\* Bot::save_jobs, its copy (bot.rs 106-109): on Err, r! returns and the
\* binary ends.  last keeps whether the copy returned Ok and, in batch,
\* the store save_jobs was called with.
SaveCopy ==
    /\ run.main # "none"
    /\ run.at = "save"
    /\ \E copied \in fs_copy(file, backup) :
       \E exit \in Exits(run.main) :
          /\ backup' = copied.to
          /\ run' = IF copied.is_ok
                    THEN [run EXCEPT !.at = "write"]
                    ELSE [NoRun EXCEPT !.at = "copy_failed", !.exit = exit]
          /\ jobs' = IF copied.is_ok THEN jobs ELSE EmptyMap
          /\ last' = [NoOp EXCEPT !.op = "save", !.is_ok = copied.is_ok,
                                  !.batch = jobs]
    /\ UNCHANGED <<job_sources, clock, pc, idx, now, scraped, page, file, trip, evicted, warned, found, ranked, item>>

\* Bot::save_jobs, its write (bot.rs 110-111), and the binary ends.
SaveWrite ==
    /\ run.main # "none"
    /\ run.at = "write"
    /\ \E text \in ron_to_string(jobs) :
       \E written \in fs_write(file, text) :
       \E exit \in Exits(run.main) :
          /\ file' = written.to
          /\ run' = [NoRun EXCEPT
                        !.at = IF written.is_ok THEN "saved" ELSE "write_failed",
                        !.exit = exit]
    /\ last' = NoOp
    /\ jobs' = EmptyMap
    /\ UNCHANGED <<job_sources, clock, pc, idx, now, scraped, page, backup, trip, evicted, warned, found, ranked, item>>

NextRun ==
    \/ TickOff
    \/ \E main \in {"scrape", "fix", "list"} : Start(main)
    \/ InitFail
    \/ Load
    \/ UpdateBegin
    \/ pc = "scrape" /\ \E chunks \in RunPagesOf(job_sources[idx]) : UpdateOk(chunks)
    \/ UpdateErr
    \/ UpdateEnd
    \/ Fix
    \/ List
    \/ SaveCopy
    \/ SaveWrite

SpecRun == InitRun /\ [][NextRun]_vars


\* ------------------------------------ passes after the postings are gone
\* The pages a source shows at clock reading t: postings before
\* MaxSeenTime, none from then on.
GonePagesOf(name, t) == IF t < MaxSeenTime THEN RunPagesOf(name) ELSE {<<>>}

\* The store holds an entry flagged missing for less than GraceDays whole
\* days at clock reading t.
Pending(store, t) ==
    \E id \in DOMAIN store :
        /\ is_some(store[id].missing_since)
        /\ num_days(t - unwrap(store[id].missing_since)) < GraceDays

\* Time passes while the sources show postings and while an entry's grace
\* period runs.
TickGone ==
    /\ Tick(IF Pending(jobs, clock) THEN clock + 1 ELSE MaxSeenTime)
    /\ UNCHANGED <<file, backup, run, trip, evicted, warned, found, ranked, item>>

\* update_job_source(i) is called.
BeginGone(i) ==
    /\ BeginUpdate(i)
    /\ UNCHANGED <<file, backup, run, trip, evicted, warned, found, ranked, item>>

\* update_job_source(i) returns Ok.
PassGone(i) ==
    /\ pc = "scrape"
    /\ idx = i
    /\ \E chunks \in GonePagesOf(job_sources[idx], clock) : ScrapeLastPage(chunks)
    /\ UNCHANGED <<file, backup, run, trip, evicted, warned, found, ranked, item>>

NextGone ==
    \/ TickGone
    \/ \E i \in DOMAIN SourceNames : BeginGone(i)
    \/ (pc = "scrape" /\ \E chunks \in GonePagesOf(job_sources[idx], clock) : ScrapeNextPage(chunks))
          /\ UNCHANGED <<file, backup, run, trip, evicted, warned, found, ranked, item>>
    \/ \E i \in DOMAIN SourceNames : PassGone(i)
    \/ ScrapeFail /\ UNCHANGED <<file, backup, run, trip, evicted, warned, found, ranked, item>>
    \/ FixJobs /\ UNCHANGED <<file, backup, run, trip, evicted, warned, found, ranked, item>>

\* Time advances, and for every source passes keep being made
\* (update_jobs goes through every source, bot.rs 149-151, each time the
\* scrape binary runs, scrape.rs 5-13) and keep returning Ok.
FairGone ==
    /\ SF_vars(TickGone)
    /\ \A i \in DOMAIN SourceNames : SF_vars(BeginGone(i)) /\ SF_vars(PassGone(i))

SpecGone == Init /\ [][NextGone]_vars /\ FairGone

\* ------------------------------------------------ passes, with the listings
\* The passes with the trips of the ids, and list_jobs between the passes.
NextList ==
    \/ Tick(MaxListTime) /\ UNCHANGED <<file, backup, run, trip, evicted, warned, found, ranked, item>>
    \/ (\E i \in DOMAIN SourceNames : BeginUpdate(i))
          /\ UNCHANGED <<file, backup, run, trip, evicted, warned, found, ranked, item>>
    \/ (pc = "scrape" /\ \E chunks \in RunPagesOf(job_sources[idx]) : ScrapeNextPage(chunks))
          /\ UNCHANGED <<file, backup, run, trip, evicted, warned, found, ranked, item>>
    \/ (pc = "scrape" /\ \E chunks \in RunPagesOf(job_sources[idx]) : ScrapeLastPage(chunks))
          /\ trip' = RoundTrip(trip, last', jobs')
          /\ UNCHANGED <<file, backup, run, evicted, warned, found, ranked, item>>
    \/ ScrapeFail /\ UNCHANGED <<file, backup, run, trip, evicted, warned, found, ranked, item>>
    \/ ListJobs

SpecList == Init /\ [][NextList]_vars
\* -------------------------------------------------------------- properties
\* The step is update_job_source returning Ok: before it, jobs is the
\* previous store, job_sources[idx] the source and now the pass's time;
\* after it, jobs' is the next store, last'.batch the incoming batch and
\* last'.log the events.
PassOk == pc = "scrape" /\ pc' = "idle" /\ last'.is_ok

\* The last step was update_job_source returning Ok.
PassedOk == last.op = "update" /\ last.is_ok

Events(l, kind) == {e.id : e \in {x \in l : x.kind = kind}}

\* C1: a successful pass for source S leaves every store entry whose source
\* is not S in the store with all of its fields unchanged, whatever the ids
\* of the batch.
C1_OtherSourcesUntouched ==
    [][PassOk =>
        \A id \in DOMAIN jobs :
            jobs[id].source # job_sources[idx] =>
                id \in DOMAIN jobs' /\ jobs'[id] = jobs[id]]_vars

\* C3: an id that stays in the store from one step to the next keeps its
\* first_seen, whatever the step.
C3_FirstSeenImmutable ==
    [][\A id \in DOMAIN jobs \cap DOMAIN jobs' :
          jobs'[id].first_seen = jobs[id].first_seen]_vars

\* C3 witness: a pass has just overwritten the title of an entry that is in
\* its batch, and the entry's first_seen is not the batch's stamp.
C3_Witness ==
    /\ PassedOk
    /\ \E id \in last.retitled :
          /\ id \in DOMAIN last.batch
          /\ jobs[id].title = last.batch[id].title
          /\ jobs[id].first_seen # last.batch[id].first_seen

\* C4: in a successful pass for S at time now, an entry of S absent from
\* the batch that has been missing for GraceDays - 1 whole days stays, and
\* one that has been missing for GraceDays whole days or more is removed.
C4_EvictionBoundary ==
    [][PassOk =>
        \A id \in DOMAIN jobs :
            (/\ jobs[id].source = job_sources[idx]
             /\ id \notin DOMAIN last'.batch
             /\ is_some(jobs[id].missing_since)) =>
                LET age == num_days(now - unwrap(jobs[id].missing_since))
                IN  /\ age = GraceDays - 1 => id \in DOMAIN jobs'
                    /\ age >= GraceDays => id \notin DOMAIN jobs']_vars

\* C4 witness: a pass has just removed an entry and kept another of the
\* same source that is absent from the batch and GraceDays - 1 days missing,
\* with half a day more.
C4_Witness ==
    /\ PassedOk
    /\ last.gone # {}
    /\ \E id \in DOMAIN jobs :
          /\ jobs[id].source = last.name
          /\ id \notin DOMAIN last.batch
          /\ is_some(jobs[id].missing_since)
          /\ last.now - unwrap(jobs[id].missing_since)
                = (GraceDays - 1) * TicksPerDay + 1

\* The entries a pass flags: those of the source, absent from the batch,
\* with missing_since unset.
NewlyMissing(store, name, batch) ==
    {id \in DOMAIN store :
        /\ store[id].source = name
        /\ id \notin DOMAIN batch
        /\ store[id].missing_since = None}

\* C5: a successful pass for S at time now sets missing_since to now for
\* exactly the entries of S absent from the batch with missing_since unset,
\* with one "missing" event each; an absent entry that was already flagged
\* keeps its missing_since and gets no event.
C5_MissingMarkedOnce ==
    [][PassOk =>
        LET M == NewlyMissing(jobs, job_sources[idx], last'.batch)
        IN  /\ \A id \in M :
                  id \in DOMAIN jobs' /\ jobs'[id].missing_since = Some(now)
            /\ Events(last'.log, "missing") = M
            /\ \A id \in (DOMAIN jobs \cap DOMAIN jobs') \ M :
                  id \notin DOMAIN last'.batch =>
                      jobs'[id].missing_since = jobs[id].missing_since]_vars

\* C5 witness: a pass has just flagged one entry and left another of the
\* same source, absent too, with its earlier missing_since.
C5_Witness ==
    /\ PassedOk
    /\ \E id \in Events(last.log, "missing") :
          /\ jobs[id].missing_since = Some(last.now)
          /\ \E other \in DOMAIN jobs \ (DOMAIN last.batch \cup {id}) :
                /\ jobs[other].source = last.name
                /\ is_some(jobs[other].missing_since)
                /\ unwrap(jobs[other].missing_since) < last.now
                /\ other \notin Events(last.log, "missing")

\* C6: from the call of update_job_source to its return, no step but the
\* return from a scrape that returned Ok changes the store: when the scrape
\* returns Err, at whatever page, the pass returns Err and the store is
\* what it was before the pass.
C6_FailedScrapeKeepsStore ==
    [][(pc = "scrape" /\ (pc' = "scrape" \/ ~last'.scraped_ok)) =>
          /\ jobs' = jobs
          /\ pc' = "idle" => ~last'.is_ok]_vars

\* C6 witness: a scrape has just failed after a page gave it a posting that
\* is not in the store, and the store holds an entry of the source that the
\* scrape had not found and that is not flagged.
C6_Witness ==
    /\ last.op = "update"
    /\ ~last.scraped_ok
    /\ \E id \in DOMAIN last.batch : id \notin DOMAIN jobs
    /\ \E id \in DOMAIN jobs \ DOMAIN last.batch :
          jobs[id].source = last.name /\ jobs[id].missing_since = None

\* The entries of a store.
Entries(store) == {<<id, store[id]>> : id \in DOMAIN store}

\* The entries of the next store as the contract lists them: the previous
\* entries not of the source, unchanged; the previous entries of the source
\* absent from incoming that, once marked, are younger than the grace
\* period; the incoming entries with first_seen carried over and
\* missing_since unset.
NextStoreEntries(previousStore, sourceName, incoming, now_) ==
    LET others == {id \in DOMAIN previousStore :
                      previousStore[id].source # sourceName}
        absent == {id \in DOMAIN previousStore \ DOMAIN incoming :
                      previousStore[id].source = sourceName}
        marked(id) == IF previousStore[id].missing_since = None
                      THEN [previousStore[id] EXCEPT !.missing_since = Some(now_)]
                      ELSE previousStore[id]
        kept   == {id \in absent :
                      num_days(now_ - unwrap(marked(id).missing_since)) < GraceDays}
        carried(id) == [incoming[id] EXCEPT
                          !.first_seen = IF id \in DOMAIN previousStore
                                         THEN previousStore[id].first_seen
                                         ELSE @,
                          !.missing_since = None]
    IN  {<<id, previousStore[id]>> : id \in others}
            \cup {<<id, marked(id)>> : id \in kept}
            \cup {<<id, carried(id)>> : id \in DOMAIN incoming}

\* C8: the entries of the store a successful pass leaves are the entries
\* the contract lists for the previous store, the source, the batch and
\* now, and no others.
C8_InPlaceEqualsPure ==
    [][PassOk =>
          Entries(jobs') =
              NextStoreEntries(jobs, job_sources[idx], last'.batch, now)]_vars

\* The same, for the passes whose batch has no id that an entry of another
\* source holds.
InPlaceEqualsPureOnOwnIds ==
    [][(PassOk /\ \A id \in DOMAIN jobs \cap DOMAIN last'.batch :
                      jobs[id].source = job_sources[idx]) =>
          Entries(jobs') =
              NextStoreEntries(jobs, job_sources[idx], last'.batch, now)]_vars

\* C9 as claimed: a posting new to the store gets first_seen = now, the
\* pass's time.
C9_NewFirstSeenIsPassNow ==
    [][PassOk =>
        \A id \in DOMAIN last'.batch \ DOMAIN jobs :
            /\ id \in DOMAIN jobs'
            /\ jobs'[id].first_seen = now
            /\ jobs'[id].missing_since = None
            /\ id \in Events(last'.log, "new")]_vars

\* C9 amended: a posting new to the store is in the next store with the
\* first_seen Job::new gave it when its page was parsed, a clock reading
\* from the pass's now to the pass's end, with missing_since unset and a
\* "new" event, and no other posting gets a "new" event; an empty store and
\* a batch of one posting give a store of one entry.
C9_NewPostingInserted ==
    [][PassOk =>
        /\ \A id \in DOMAIN last'.batch \ DOMAIN jobs :
              /\ id \in DOMAIN jobs'
              /\ jobs'[id].first_seen = last'.batch[id].first_seen
              /\ now <= jobs'[id].first_seen
              /\ jobs'[id].first_seen <= clock'
              /\ jobs'[id].missing_since = None
        /\ Events(last'.log, "new") = DOMAIN last'.batch \ DOMAIN jobs
        /\ (jobs = EmptyMap /\ map_len(last'.batch) = 1) => map_len(jobs') = 1]_vars

\* C9 witness: a pass has just inserted a new posting parsed a tick after
\* the pass's now, into a store that was empty.
C9_Witness ==
    /\ PassedOk
    /\ map_len(jobs) = 1
    /\ \E id \in Events(last.log, "new") :
          /\ DOMAIN jobs = {id}
          /\ DOMAIN last.batch = {id}
          /\ jobs[id].first_seen = last.now + 1
          /\ jobs[id].missing_since = None

\* C2: for every id, after the pass of its source that no longer had it in
\* the batch (the pass before had) the id is in the store with
\* missing_since set, and after the next pass of that source, with the id
\* in the batch again, the entry has missing_since unset and the first_seen
\* it had after the first of the three passes.
C2_MissingRecoveryRoundTrip ==
    \A id \in Ids :
        /\ trip[id].stage = 2 =>
              /\ id \in DOMAIN jobs
              /\ is_some(jobs[id].missing_since)
        /\ trip[id].stage = 3 =>
              /\ id \in DOMAIN jobs
              /\ jobs[id].missing_since = None
              /\ jobs[id].first_seen = trip[id].fs

\* C2 witness: the third pass has just returned, it logged the recovery and
\* it had parsed the posting later than the entry's first_seen.
C2_Witness ==
    /\ PassedOk
    /\ \E id \in Events(last.log, "recovered") :
          /\ trip[id].stage = 3
          /\ trip[id].src = last.name
          /\ last.batch[id].first_seen > trip[id].fs

\* The binary's load_jobs failed and its main went on.
LoadFailed == run.main # "none" /\ run.at # "load" /\ ~run.loaded

\* C7: once a binary's load of the store has failed, no step of it
\* reconciles a source, logs a posting as new or changes the jobs file.
C7_LoadFailureAborts ==
    [][LoadFailed =>
          /\ ~PassOk
          /\ Events(last'.log, "new") = {}
          /\ file' = file]_vars

\* C10: the jobs file changes in no step but save_jobs' write, and when
\* that write begins the backup file holds the content of the jobs file.
C10_BackupBeforeOverwrite ==
    [][(file' # file \/ (run.main # "none" /\ run.at = "write")) =>
          /\ run.main # "none"
          /\ run.at = "write"
          /\ backup = file]_vars

\* C10 witness: a binary has just saved a store over another store's file,
\* and the backup holds entries the jobs file no longer has.
C10_Witness ==
    /\ run.main = "none"
    /\ run.at = "saved"
    /\ backup.kind = "ron"
    /\ Len(backup.text) > 0
    /\ file.kind = "ron"
    /\ file # backup

\* C16: a successful pass for a source with an empty batch leaves every
\* entry of another source in the store with all of its fields unchanged,
\* however long the entry has been missing.
C16_EmptyBatchKeepsOtherSources ==
    [][(PassOk /\ last'.batch = EmptyMap) =>
          \A id \in DOMAIN jobs :
              jobs[id].source # job_sources[idx] =>
                  id \in DOMAIN jobs' /\ jobs'[id] = jobs[id]]_vars

\* C16 witness: a pass with an empty batch has just removed an entry of its
\* source, and the store holds an entry of another source that has been
\* missing for the grace period.
C16_Witness ==
    /\ PassedOk
    /\ last.batch = EmptyMap
    /\ last.gone # {}
    /\ \E id \in DOMAIN jobs :
          /\ jobs[id].source # last.name
          /\ is_some(jobs[id].missing_since)
          /\ num_days(last.now - unwrap(jobs[id].missing_since)) >= GraceDays

\* The batches a scrape of one page of the source can return at clock
\* reading t.
BatchesOf(name, t) == {parse_page(name, chunks, t).jobs : chunks \in PagesOf(name)}

\* The store a pass for the source leaves when its scrape returns Ok(batch).
StoreAfter(store, name, batch, now_) ==
    update_job_source(store, name, Ok(batch), now_).jobs

\* C14: for the two sources, each with a batch of its own and the same
\* pass time, the pass for the first and then the pass for the second
\* leave the store that the two passes leave in the other order.
C14_PassesCommute ==
    \A a \in BatchesOf(job_sources[1], clock) :
    \A b \in BatchesOf(job_sources[2], clock) :
        StoreAfter(StoreAfter(jobs, job_sources[1], a, clock), job_sources[2], b, clock)
          = StoreAfter(StoreAfter(jobs, job_sources[2], b, clock), job_sources[1], a, clock)

\* The same, for the batches that share no id with each other nor with an
\* entry of the other source.
PassesCommuteOnOwnIds ==
    \A a \in BatchesOf(job_sources[1], clock) :
    \A b \in BatchesOf(job_sources[2], clock) :
        (/\ DOMAIN a \cap DOMAIN b = {}
         /\ \A id \in DOMAIN jobs \cap DOMAIN a : jobs[id].source = job_sources[1]
         /\ \A id \in DOMAIN jobs \cap DOMAIN b : jobs[id].source = job_sources[2]) =>
        StoreAfter(StoreAfter(jobs, job_sources[1], a, clock), job_sources[2], b, clock)
          = StoreAfter(StoreAfter(jobs, job_sources[2], b, clock), job_sources[1], a, clock)

\* C11: a binary whose write of the jobs file failed ends with an error.
C11_WriteFailureIsFatal ==
    (run.main = "none" /\ run.at = "write_failed") => run.exit = "err"

\* The names of the sources update_jobs has called update_job_source for.
Tried == [k \in DOMAIN run.done |-> run.done[k].name]

\* C12: in the scrape binary update_jobs calls update_job_source for the
\* sources in list order, whatever the calls before returned, and returns
\* only after the last source.
C12_LaterSourcesStillScraped ==
    run.main = "scrape" =>
        /\ run.at = "update" =>
              /\ Tried = SubSeq(job_sources, 1, Len(run.done))
              /\ pc = "idle" => run.i = Len(run.done) + 1
        /\ run.at \in {"save", "write"} => Tried = job_sources

\* C12 witness: update_jobs has returned, the scrape of the first source
\* had failed, and the store holds a posting of the second.
C12_Witness ==
    /\ run.main = "scrape"
    /\ run.at = "save"
    /\ ~run.done[1].is_ok
    /\ run.done[2].is_ok
    /\ \E id \in DOMAIN jobs : jobs[id].source = job_sources[2]

\* C13: when update_job_source returns the Err of a scrape to update_jobs,
\* an event naming the failure of that source is logged.
C13_ScrapeFailureLogged ==
    [][(run.main = "scrape" /\ pc = "scrape" /\ pc' = "idle" /\ ~last'.scraped_ok) =>
          \E e \in last'.log : e.kind = "failed" /\ e.id = last'.name]_vars

\* The step is fix.rs's fix_jobs.
FixStep == run.main = "fix" /\ run.at = "fix" /\ run'.at = "save"

\* C18: fix_jobs leaves the store's keys and, in every entry, first_seen,
\* missing_since, url, title, company and source as they were, and gives
\* the entry the level, specialty, discipline and is_general_application
\* that its title parses to.
C18_FixJobsReclassifiesOnly ==
    [][FixStep =>
          /\ DOMAIN jobs' = DOMAIN jobs
          /\ \A id \in DOMAIN jobs :
                LET norm == normalized(jobs[id].title)
                IN  /\ jobs'[id].first_seen = jobs[id].first_seen
                    /\ jobs'[id].missing_since = jobs[id].missing_since
                    /\ jobs'[id].url = jobs[id].url
                    /\ jobs'[id].title = jobs[id].title
                    /\ jobs'[id].company = jobs[id].company
                    /\ jobs'[id].source = jobs[id].source
                    /\ jobs'[id].level = parse_level(norm)
                    /\ jobs'[id].specialty = parse_specialty(norm)
                    /\ jobs'[id].discipline = parse_discipline(norm)
                    /\ jobs'[id].is_general_application
                          = parse_is_general_application(norm)]_vars

\* C18 witness: fix_jobs has just given "Jr. Coder", stored as a general
\* application for a mid-level web job of no known discipline, the level
\* Entry, no specialty and the discipline Programmer.
C18_Witness ==
    /\ run.main = "fix"
    /\ run.at = "save"
    /\ file = RonFile(<<<<"j1", StaleJob>>>>)
    /\ DOMAIN jobs = {"j1"}
    /\ jobs["j1"] = [StaleJob EXCEPT !.level = "Entry", !.specialty = None,
                                    !.discipline = "Programmer",
                                    !.is_general_application = FALSE]

\* C15: the store holds no entry under an id that a pass has evicted, and
\* the pass that has the id in its batch again inserts it as a new posting:
\* first_seen is the stamp of that observation, from the pass's now on,
\* missing_since is unset, and the event logged for it is "new" and not
\* "recovered".
C15_NoTombstone ==
    [][\A id \in Ids :
          evicted[id] = "evicted" =>
              /\ id \notin DOMAIN jobs
              /\ (PassOk /\ id \in DOMAIN last'.batch) =>
                    /\ id \in DOMAIN jobs'
                    /\ jobs'[id].first_seen = last'.batch[id].first_seen
                    /\ jobs'[id].first_seen >= now
                    /\ jobs'[id].missing_since = None
                    /\ id \in Events(last'.log, "new")
                    /\ id \notin Events(last'.log, "recovered")]_vars

\* C15 witness: the last pass has inserted an id that an earlier pass
\* evicted.
C15_Witness ==
    /\ PassedOk
    /\ \E id \in DOMAIN last.batch :
          /\ evicted[id] = "back"
          /\ id \in Events(last.log, "new")
          /\ jobs[id].first_seen >= GraceDays * TicksPerDay

\* C17: when a scrape has parsed more than one posting with the same id,
\* a warning is logged for the id, the batch holds the last of them, and
\* update_job_source goes on and returns Ok.
C17_DuplicateIdsWarned ==
    (last.op = "update" /\ last.scraped_ok) =>
        \A id \in Ids :
            found[id].n > 1 =>
                /\ id \in warned
                /\ id \in DOMAIN last.batch
                /\ last.batch[id] = unwrap(found[id].job)
                /\ last.is_ok

\* What holds of the duplicates: the id is warned of when two of its
\* postings are on one page, and only then; the batch holds the last one.
DuplicateIdsOnOnePageWarned ==
    (last.op = "update" /\ last.scraped_ok) =>
        \A id \in Ids :
            /\ id \in warned <=> found[id].n > found[id].pages
            /\ found[id].n > 0 =>
                  /\ id \in DOMAIN last.batch
                  /\ last.batch[id] = unwrap(found[id].job)
                  /\ last.is_ok

\* The posting at a place of the ranked sequence, its age in days when it
\* was ranked, and whether two places hold postings that are both
\* desirable or both not, and of one age bucket.
Ranked(a) == jobs[ranked.ids[a]]
RankedAge(a) == num_days(ranked.at - Ranked(a).first_seen)
AgeBucket(age) == IF age = 0 THEN "today" ELSE IF age < 7 THEN "week" ELSE "old"
SameClass(a, b) ==
    /\ (score(Ranked(a)) > 0) = (score(Ranked(b)) > 0)
    /\ AgeBucket(RankedAge(a)) = AgeBucket(RankedAge(b))

\* C19: the sequence sorted returns holds every id of the store once, and
\* every posting with score > 0 is at a later place than every posting
\* with score <= 0.
C19_DesirableAfterUndesirable ==
    ranked # NoRanking =>
        /\ ranked.ids \in Orders(DOMAIN jobs)
        /\ \A a, b \in DOMAIN ranked.ids :
              (score(Ranked(a)) > 0 /\ score(Ranked(b)) <= 0) => b < a

\* C19 witness: a desirable posting of a week ago is ranked after an
\* undesirable one of today, and another desirable one after both.
C19_Witness ==
    /\ Len(ranked.ids) = 3
    /\ score(Ranked(1)) <= 0 /\ RankedAge(1) = 0
    /\ score(Ranked(2)) > 0 /\ RankedAge(2) = 7
    /\ score(Ranked(3)) > 0

\* C20 as claimed: of two postings of one desirability and one age bucket,
\* the one with the higher score - age is at the earlier place.
C20_HigherNetValueFirst ==
    \A a, b \in DOMAIN ranked.ids :
        (SameClass(a, b)
           /\ score(Ranked(a)) - RankedAge(a) > score(Ranked(b)) - RankedAge(b))
        => a < b

\* C20 amended: of two postings of one desirability and one age bucket,
\* the one with the higher score - age is at the later place.
C20_HigherNetValueLater ==
    \A a, b \in DOMAIN ranked.ids :
        (SameClass(a, b)
           /\ score(Ranked(a)) - RankedAge(a) > score(Ranked(b)) - RankedAge(b))
        => b < a

\* C20 witness: two undesirable postings of the last week are ranked, the
\* one with the higher score - age the older of the two, and it is last.
C20_Witness ==
    /\ Len(ranked.ids) = 2
    /\ SameClass(1, 2)
    /\ score(Ranked(2)) <= 0
    /\ RankedAge(1) = 1 /\ RankedAge(2) = 2
    /\ score(Ranked(2)) - RankedAge(2) > score(Ranked(1)) - RankedAge(1)

\* The rank of an age bucket in sorted's key: (age == 0, age < 7) as
\* (false, false), (false, true) and (true, true).
BucketRank(age) == IF age = 0 THEN 2 ELSE IF age < 7 THEN 1 ELSE 0
SameDesirability(a, b) == (score(Ranked(a)) > 0) = (score(Ranked(b)) > 0)

\* C21 as claimed: of two postings of one desirability, the one of today
\* is at an earlier place than the one of the last week, and that one at
\* an earlier place than the older one.
C21_NewerBucketFirst ==
    \A a, b \in DOMAIN ranked.ids :
        (SameDesirability(a, b) /\ BucketRank(RankedAge(a)) > BucketRank(RankedAge(b)))
        => a < b

\* C21 amended: of two postings of one desirability, the older one is at
\* the earlier place: those of 7 days and more, then those of the last
\* week, then those of today.
C21_NewerBucketLater ==
    \A a, b \in DOMAIN ranked.ids :
        (SameDesirability(a, b) /\ BucketRank(RankedAge(a)) > BucketRank(RankedAge(b)))
        => b < a

\* C21 witness: three desirable postings of one score are ranked, the one
\* of 7 days ago, then the one of yesterday, then the one of today.
C21_Witness ==
    /\ Len(ranked.ids) = 3
    /\ score(Ranked(1)) > 0
    /\ score(Ranked(1)) = score(Ranked(2)) /\ score(Ranked(2)) = score(Ranked(3))
    /\ RankedAge(1) = 7 /\ RankedAge(2) = 1 /\ RankedAge(3) = 0

\* Ord for String is less.
str_lt(s, t) == str_cmp(s, t) < 0

\* C22 as claimed: two postings of equal score, one age bucket and one
\* company are ranked by title, the lesser title first.
C22_TitleAscendingInBucket ==
    \A a, b \in DOMAIN ranked.ids :
        (/\ score(Ranked(a)) = score(Ranked(b))
         /\ AgeBucket(RankedAge(a)) = AgeBucket(RankedAge(b))
         /\ Ranked(a).company = Ranked(b).company
         /\ str_lt(Ranked(a).title, Ranked(b).title))
        => a < b

\* C22 amended: two postings of equal score, equal age in days and one
\* company are ranked by title, the lesser title first; of two postings of
\* equal score and different ages the older is first.
C22_TitleAscendingAtEqualAge ==
    \A a, b \in DOMAIN ranked.ids :
        /\ (/\ score(Ranked(a)) = score(Ranked(b))
            /\ RankedAge(a) = RankedAge(b)
            /\ Ranked(a).company = Ranked(b).company
            /\ str_lt(Ranked(a).title, Ranked(b).title))
           => a < b
        /\ (/\ score(Ranked(a)) = score(Ranked(b))
            /\ RankedAge(a) > RankedAge(b))
           => a < b

\* C22 witness: "Jr. Coder" and "Junior Coder" of one company, both of
\* yesterday and of one score, are ranked in this order.
C22_Witness ==
    /\ Len(ranked.ids) = 2
    /\ Ranked(1).title = Title1 /\ Ranked(2).title = Title3
    /\ Ranked(1).company = Ranked(2).company
    /\ score(Ranked(1)) = score(Ranked(2))
    /\ RankedAge(1) = 1 /\ RankedAge(2) = 1

\* C23: whatever order the map gives its keys, sorted returns the sequence
\* it returned to the last list_jobs, for the same store and the same now.
C23_RankerDeterministic ==
    ranked # NoRanking =>
        \A ids \in Orders(DOMAIN jobs) : sorted(jobs, ids, ranked.at) = ranked.ids

\* What holds of two runs: the sequences differ only in the places of
\* postings that agree on score, age, company and title.
RankerDeterministicUpToTies ==
    ranked # NoRanking =>
        \A ids \in Orders(DOMAIN jobs) :
            \A k \in DOMAIN ranked.ids :
                sort_key(jobs[sorted(jobs, ids, ranked.at)[k]], ranked.at)
                    = sort_key(Ranked(k), ranked.at)

\* The Job built from the title.
Built == unwrap(item.job)

\* The normalized title, as a set of one, and the sequence of its words.
Norm == {normalized(item.title)}
WordsOf(norm) == {split_whitespace(norm)}

\* Two of the words, one after the other.
HasPhrase(words, v, w) ==
    \E k \in 1..(Len(words) - 1) : words[k] = v /\ words[k + 1] = w

\* The patterns of the four rule sets.
LevelPatterns == <<INTERN_RE, ENTRY_RE, MID_RE, SENIOR_RE, LEAD_RE>>
SpecialtyPatterns ==
    <<AUTOMATION_RE, WEB_RE, GRAPHICS_RE, ANIMATION_RE, PHYSICS_RE, AUDIO_RE,
      AI_RE, UI_RE, NETWORK_RE, ENGINE_RE, GAMEPLAY_RE, SOFT_AI_RE>>
DisciplinePatterns ==
    <<MANAGER_RE, TESTER_RE, KNOWN_OTHER_RE, PROGRAMMER_RE, OTHER_RE, ARTIST_RE,
      WRITER_RE, COMPOSER_RE, DESIGNER_RE, HEAD_RE, GENERALIST_RE>>
Matching(patterns, norm) == {k \in DOMAIN patterns : is_match(patterns[k], norm)}
Least(S) == CHOOSE k \in S : \A l \in S : k <= l

\* C24: the Job built from a title has one of the five levels, one of the
\* eight disciplines, no specialty or one of the eleven, and a boolean
\* flag; when no pattern matches the normalized title they are Mid, none,
\* Other and false.
C24_ClassificationTotal ==
    is_some(item.job) =>
        /\ Built.level \in JobLevel
        /\ Built.discipline \in JobDiscipline
        /\ Built.specialty \in {None} \cup {Some(s) : s \in JobSpecialty}
        /\ Built.is_general_application \in BOOLEAN
        /\ \A norm \in Norm :
              (/\ Matching(LevelPatterns, norm) = {}
               /\ Matching(SpecialtyPatterns, norm) = {}
               /\ Matching(DisciplinePatterns, norm) = {}
               /\ ~is_match(GENERAL_APPLICATION_RE, norm))
              => /\ Built.level = "Mid"
                 /\ Built.specialty = None
                 /\ Built.discipline = "Other"
                 /\ Built.is_general_application = FALSE

\* C24 witness: the title "-- / --", with no letter and no digit, is
\* normalized to the empty string and classified Mid, none, Other, false.
C24_Witness ==
    /\ item.title = <<"-","-"," ","/"," ","-","-">>
    /\ Norm = {<<>>}
    /\ is_some(item.job)
    /\ Built = [level |-> "Mid", specialty |-> None, discipline |-> "Other",
                is_general_application |-> FALSE]

\* C25: the level is the one of the first of the patterns Intern, Entry,
\* Mid, Senior, Lead that matches the normalized title, and Mid when none
\* does: "Mid/Senior" is Mid, "Senior/Lead" is Senior, "Executive
\* Assistant" is Mid, "Executive" is Lead and "Wizard" is Mid.
C25_LevelFirstMatchWins ==
    is_some(item.job) =>
        /\ \A norm \in Norm : \A cues \in {Matching(LevelPatterns, norm)} :
              Built.level =
                 IF cues = {} THEN "Mid"
                 ELSE <<"Intern", "Entry", "Mid", "Senior", "Lead">>[Least(cues)]
        /\ item.title = <<"M","i","d","/","S","e","n","i","o","r">> => Built.level = "Mid"
        /\ item.title = <<"S","e","n","i","o","r","/","L","e","a","d">> => Built.level = "Senior"
        /\ item.title = <<"E","x","e","c","u","t","i","v","e"," ","A","s","s","i","s","t","a","n","t">> => Built.level = "Mid"
        /\ item.title = <<"E","x","e","c","u","t","i","v","e">> => Built.level = "Lead"
        /\ item.title = <<"W","i","z","a","r","d">> => Built.level = "Mid"

\* C25 witness: "Executive Assistant" is built, with the words of a Mid
\* pattern and of a Lead pattern, and of no other level's.
C25_Witness ==
    /\ item.title = <<"E","x","e","c","u","t","i","v","e"," ","A","s","s","i","s","t","a","n","t">>
    /\ is_some(item.job)
    /\ \A norm \in Norm : Matching(LevelPatterns, norm) = {3, 5}
    /\ Built.level = "Mid"

\* The words of the Manager rule.
ManagerWords == { <<"m","a","n","a","g","e","r">>,
                  <<"d","i","r","e","c","t","o","r">>,
                  <<"p","r","e","s","i","d","e","n","t">>,
                  <<"c","o","o","r","d","i","n","a","t","o","r">>,
                  <<"p","r","o","d","u","c","e","r">> }

\* C26: a title with manager, director, president, coordinator or producer
\* among the words of its normalized form is a Manager's; "Director of
\* Engineering" is.
C26_ManagerCueDominates ==
    is_some(item.job) =>
        /\ \A norm \in Norm : \A words \in WordsOf(norm) :
              Range(words) \cap ManagerWords # {} => Built.discipline = "Manager"
        /\ item.title = <<"D","i","r","e","c","t","o","r"," ","o","f"," ","E","n","g","i","n","e","e","r","i","n","g">> => Built.discipline = "Manager"

\* C26 witness: "Director of Engineering" is built, which the Programmer
\* pattern matches too.
C26_Witness ==
    /\ item.title = <<"D","i","r","e","c","t","o","r"," ","o","f"," ","E","n","g","i","n","e","e","r","i","n","g">>
    /\ is_some(item.job)
    /\ \A norm \in Norm : is_match(PROGRAMMER_RE, norm)
    /\ Built.discipline = "Manager"

\* C27: the specialty is Ai for the phrases "computer vision" and "machine
\* learning" when no pattern from Automation to Audio matches, whatever
\* Ui, Network, Engine and Gameplay do, and for the word "ai" only when no
\* pattern from Automation to Gameplay matches; "AI/Gameplay Programmer"
\* is Gameplay and "Machine Learning Engineer" is Ai.
C27_BareAiIsFallback ==
    is_some(item.job) =>
        /\ \A norm \in Norm : \A words \in WordsOf(norm) :
           \A cues \in {Matching(SpecialtyPatterns, norm)} :
           \A phrase \in {(HasPhrase(words, <<"c","o","m","p","u","t","e","r">>, <<"v","i","s","i","o","n">>)
                            \/ HasPhrase(words, <<"m","a","c","h","i","n","e">>, <<"l","e","a","r","n","i","n","g">>))} :
           \A word \in {(<<"a","i">> \in Range(words))} :
              /\ (phrase /\ cues \cap 1..6 = {}) => Built.specialty = Some("Ai")
              /\ (word /\ cues \cap 1..11 = {}) => Built.specialty = Some("Ai")
              /\ (word /\ ~phrase /\ cues \cap 1..11 # {}) => Built.specialty # Some("Ai")
              /\ Built.specialty = Some("Ai") => (phrase \/ word)
        /\ item.title = <<"A","I","/","G","a","m","e","p","l","a","y"," ","P","r","o","g","r","a","m","m","e","r">> => Built.specialty = Some("Gameplay")
        /\ item.title = <<"M","a","c","h","i","n","e"," ","L","e","a","r","n","i","n","g"," ","E","n","g","i","n","e","e","r">> => Built.specialty = Some("Ai")

\* C27 witness: "AI/Gameplay Programmer" is built, with the specialty
\* Gameplay.
C27_Witness ==
    /\ item.title = <<"A","I","/","G","a","m","e","p","l","a","y"," ","P","r","o","g","r","a","m","m","e","r">>
    /\ is_some(item.job)
    /\ \A norm \in Norm : \A words \in WordsOf(norm) : <<"a","i">> \in Range(words)
    /\ Built.specialty = Some("Gameplay")

\* C28: a Job whose discipline is not Programmer and which has no
\* specialty scores 0 or less.
C28_NonProgrammerNeverDesirable ==
    (is_some(item.score) /\ Built.discipline # "Programmer" /\ Built.specialty = None)
        => unwrap(item.score) <= 0

\* C28 witness: an entry-level Designer with no specialty, not a general
\* application, is scored -950.
C28_Witness ==
    /\ is_some(item.job)
    /\ Built = [level |-> "Entry", specialty |-> None, discipline |-> "Designer",
                is_general_application |-> FALSE]
    /\ item.score = Some(-950)

\* C29: normalized applied to what normalized returned returns it again;
\* what it returns has lower-case letters, digits and single blanks
\* between them only.
C29_NormalizedIdempotent ==
    \A k \in DOMAIN item.norms :
        /\ item.norms[k] = item.norms[1]
        /\ \A i \in DOMAIN item.norms[k] :
              /\ item.norms[k][i] \in Range(LowerChars) \cup Digits \cup {" "}
              /\ item.norms[k][i] = " " =>
                    /\ 1 < i /\ i < Len(item.norms[k])
                    /\ item.norms[k][i + 1] # " "

\* C29 witness: "Senior/Lead C++ Software Engineer" was normalized twice,
\* to "senior lead c software engineer".
C29_Witness ==
    /\ item.title = <<"S","e","n","i","o","r","/","L","e","a","d"," ","C","+","+"," ","S","o","f","t","w","a","r","e"," ","E","n","g","i","n","e","e","r">>
    /\ Len(item.norms) = 2
    /\ item.norms[2] = <<"s","e","n","i","o","r"," ","l","e","a","d"," ","c"," ","s","o","f","t","w","a","r","e"," ","e","n","g","i","n","e","e","r">>

\* C30: the flag is true exactly when "general application" or "drop box"
\* are two words of the normalized title, one after the other.
C30_GeneralApplicationFlag ==
    is_some(item.job) =>
        \A norm \in Norm : \A words \in WordsOf(norm) :
            Built.is_general_application
                <=> (HasPhrase(words, <<"g","e","n","e","r","a","l">>, <<"a","p","p","l","i","c","a","t","i","o","n">>)
                       \/ HasPhrase(words, <<"d","r","o","p">>, <<"b","o","x">>))

\* C30 witness: "QA Manager, General Application" is built, a Manager's
\* title by the first rule of the disciplines, with the flag.
C30_Witness ==
    /\ item.title = <<"Q","A"," ","M","a","n","a","g","e","r",","," ","G","e","n","e","r","a","l"," ","A","p","p","l","i","c","a","t","i","o","n">>
    /\ is_some(item.job)
    /\ Built.discipline = "Manager"
    /\ Built.is_general_application

\* ------------------------------------------- recovery, eviction, the listing
\* The entries of `name` in `store` that a pass at now_ meets flagged
\* missing for GraceDays whole days or more.
Overdue(store, name, now_) ==
    {id \in DOMAIN store :
        /\ store[id].source = name
        /\ is_some(store[id].missing_since)
        /\ num_days(now_ - unwrap(store[id].missing_since)) >= GraceDays}

\* C31: a successful pass for S keeps every entry of S that it meets
\* flagged missing for the grace period or longer and that is in its
\* batch: the entry is in the next store with missing_since unset and the
\* first_seen it had, and a "recovered" event is logged for it.
C31_RecoveryBeforeEviction ==
    [][PassOk =>
        \A id \in Overdue(jobs, job_sources[idx], now) \cap DOMAIN last'.batch :
            /\ id \in DOMAIN jobs'
            /\ jobs'[id].missing_since = None
            /\ jobs'[id].first_seen = jobs[id].first_seen
            /\ id \in Events(last'.log, "recovered")]_vars

\* C31 witness: a pass has just logged an entry as recovered after
\* GraceDays days or more, and the entry is in the store, not flagged, with
\* a first_seen before the pass.
C31_Witness ==
    /\ PassedOk
    /\ \E e \in last.log :
          /\ e.kind = "recovered"
          /\ e.days >= GraceDays
          /\ e.id \in DOMAIN jobs
          /\ jobs[e.id].source = last.name
          /\ jobs[e.id].missing_since = None
          /\ jobs[e.id].first_seen < last.now

\* The store holds an entry of the source under the id.
Posting(id, name) == id \in DOMAIN jobs /\ jobs[id].source = name

\* C32: with the sources showing no posting from some time on, time
\* advancing and every source's passes returning Ok again and again, every
\* entry is removed from the store in the end; and a successful pass for S
\* leaves the missing_since of an entry of S that is absent from its batch
\* and was flagged by an earlier pass as it was.
C32_EventualEviction ==
    /\ \A id \in Ids : \A i \in DOMAIN SourceNames :
          <>[](~Posting(id, SourceNames[i]))
    /\ [][PassOk =>
            \A id \in DOMAIN jobs \cap DOMAIN jobs' :
                (/\ jobs[id].source = job_sources[idx]
                 /\ id \notin DOMAIN last'.batch
                 /\ is_some(jobs[id].missing_since))
                => jobs'[id].missing_since = jobs[id].missing_since]_vars

\* C32 witness: a pass with an empty batch, GraceDays days or more after
\* the sources showed their last posting, has just removed an entry that an
\* earlier pass had flagged.
C32_Witness ==
    /\ PassedOk
    /\ last.batch = EmptyMap
    /\ last.gone # {}
    /\ last.now >= MaxSeenTime + GraceDays * TicksPerDay
    /\ Events(last.log, "missing") = {}

\* C33: after a successful pass for S at time now, an entry of S that was
\* in the batch has missing_since unset, and an entry of S that was not has
\* missing_since set, less than GraceDays whole days before now.
C33_FlagsAfterPass ==
    PassedOk =>
        \A id \in DOMAIN jobs :
            jobs[id].source = last.name =>
                IF id \in DOMAIN last.batch
                THEN jobs[id].missing_since = None
                ELSE /\ is_some(jobs[id].missing_since)
                     /\ num_days(last.now - unwrap(jobs[id].missing_since)) < GraceDays

\* C33 witness: a pass has just left an entry of its batch and, of the same
\* source, an entry that was not in the batch and was flagged a day or
\* more before.
C33_Witness ==
    /\ PassedOk
    /\ \E id \in DOMAIN jobs \cap DOMAIN last.batch :
          /\ jobs[id].source = last.name
          /\ jobs[id].missing_since = None
    /\ \E id \in DOMAIN jobs \ DOMAIN last.batch :
          /\ jobs[id].source = last.name
          /\ is_some(jobs[id].missing_since)
          /\ num_days(last.now - unwrap(jobs[id].missing_since)) >= 1

\* list_jobs has just returned.
Listed == last.op = "list"

\* C34: the lines list_jobs prints are those of the store's entries with
\* missing_since unset, one line each, in the order sorted gave them: an
\* entry flagged missing is in the store and is not printed.
C34_ListedIffNotMissing ==
    Listed =>
        /\ Range(ranked.shown) = {id \in DOMAIN jobs : jobs[id].missing_since = None}
        /\ \A a, b \in DOMAIN ranked.shown : a # b => ranked.shown[a] # ranked.shown[b]
        /\ \A id \in DOMAIN jobs :
              is_some(jobs[id].missing_since) =>
                  /\ id \in Range(ranked.ids)
                  /\ id \notin Range(ranked.shown)

\* C34 witness: list_jobs has just printed an entry that was in a batch of
\* its source, then not, then in the batch again, and has left out an
\* entry that is in the store flagged missing.
C34_Witness ==
    /\ Listed
    /\ \E id \in Range(ranked.shown) : trip[id].stage = 3
    /\ \E id \in DOMAIN jobs :
          /\ is_some(jobs[id].missing_since)
          /\ id \notin Range(ranked.shown)

\* C35: save_jobs writes the jobs file only after its copy to the backup
\* has returned Ok.  When the copy fails, as it does when there is no jobs
\* file, save_jobs returns with the jobs file as it was, and the binary
\* ends with its store written nowhere.
C35_NoWriteAfterFailedCopy ==
    [][(run.main # "none" /\ run.at = "save") =>
          /\ file' = file
          /\ file.kind = "missing" => run'.at # "write"
          /\ IF run'.at = "write"
             THEN run'.main = run.main /\ backup' = file
             ELSE /\ run'.main = "none"
                  /\ run'.at = "copy_failed"
                  /\ jobs' = EmptyMap
                  /\ backup' = backup]_vars

\* C35 witness: save_jobs was called with a store that holds a posting and
\* with no jobs file, the copy has just failed, the binary has ended and
\* there is no jobs file and no backup.
C35_Witness ==
    /\ last.op = "save"
    /\ ~last.is_ok
    /\ last.batch # EmptyMap
    /\ run.main = "none"
    /\ run.at = "copy_failed"
    /\ file = Missing
    /\ backup = Missing

====
